---- MODULE Spec2Model ----
(***************************************************************************)
(* State-machine model of the scan-orchestration engine of the Tameshi     *)
(* VS Code extension: ChangeTracker (scanning/changeTracker.ts),           *)
(* ScanScheduler, LSPClient.handleFindingsUpdated and                      *)
(* FindingsProvider.loadFindingsWithEpoch.                                 *)
(*                                                                         *)
(* JavaScript Map objects are partial functions (k \in DOMAIN m is         *)
(* Map.has(k)).  An async function is a set of activation records, one per *)
(* call suspended at an await; every action runs one handler from one      *)
(* suspension point to the next, as the single-threaded event loop does.   *)
(***************************************************************************)
EXTENDS Integers, Sequences, FiniteSets, TLC

(***************************************************************************)
(* Bounds of the model                                                     *)
(***************************************************************************)
\* highest scan epoch a findingsUpdated notification carries
MaxEpoch == 3
\* loadFindingsWithEpoch activations suspended at the same time
MaxLoads == 2
\* document versions run from 1 to MaxVersion
MaxVersion == 3
\* highest value of the per-file epoch counter of the scheduler
MaxFileEpoch == 2
\* highest value of a smart-rescan statistics counter
MaxStat == 2
\* longest array of findings handed to the correlation service
MaxFindings == 3
\* most findings of an array that are augmented before the array is merged
MaxAugmented == 1
\* highest line number a finding is recorded at
MaxLine == 16
\* most lines one insertion adds
MaxInsert == 3
\* the workspace scans after which selection changes are no longer followed
MaxIdleScans == 2
\* fetchDetails calls in one behaviour
MaxCalls == 3

(***************************************************************************)
(* Program constants                                                       *)
(***************************************************************************)
SAVE_DEBOUNCE_MS == 1500
LSP_SAVE_PROCESS_DELAY_MS == 500
\* config.scan.ai.smartRescanContextLines default
DefaultContextLines == 2
DefaultBatchThreshold == 5
\* FindingDetailsService: the default of the constructor parameter
maxCacheSize == 100

(***************************************************************************)
(* Universe                                                                *)
(***************************************************************************)
Files == {"a.sol"}
\* abstract document texts; distinct texts have distinct hashes
Contents == {"T0", "T1"}
Now == "now"
Severities == <<"info", "low", "medium", "high", "critical">>

LanguageId(f) == IF f \in {"a.sol", "b.sol"} THEN "solidity" ELSE "plaintext"
FileExtension(f) == IF f \in {"a.sol", "b.sol"} THEN ".sol" ELSE ""

\* crypto.createHash('md5').update(content).digest('hex')
hashContent(content) == <<"md5", content>>
\* crypto.createHash('sha256').update(content).digest('hex')
sha256(content) == <<"sha256", content>>

(***************************************************************************)
(* Map helpers                                                             *)
(***************************************************************************)
EmptyMap == [x \in {} |-> x]
Has(m, k) == k \in DOMAIN m
MapSet(m, k, v) == [x \in (DOMAIN m) \cup {k} |-> IF x = k THEN v ELSE m[x]]
MapDel(m, k) == [x \in (DOMAIN m) \ {k} |-> m[x]]
MapDelAll(m, ks) == [x \in (DOMAIN m) \ ks |-> m[x]]
Max(S) == CHOOSE x \in S : \A y \in S : y <= x
NoHash == <<"none", "">>

\* a setTimeout handle with what its callback captured; NoTimer is an unset field
\* (save timer: file, hash, epoch, scope; batch timer: num is the batch threshold;
\* idle timer: arg is the idle mode)
Timer(kind, file, hash, num, arg) ==
    [kind |-> kind, file |-> file, hash |-> hash, num |-> num, arg |-> arg]
NoTimer == Timer("none", "", NoHash, 0, "")
\* the pending timers are a bag of handles: ts[handle] is the number of pending
\* timers created with that closure
RemoveTimer(ts, handle) ==
    IF ~Has(ts, handle) THEN ts
    ELSE IF ts[handle] > 1 THEN MapSet(ts, handle, ts[handle] - 1)
    ELSE MapDel(ts, handle)

\* a clearTimeout that leaves the timer running
LeaveTimeout(ts, handle) == ts

\* clearTimeout(handle), setTimeout(callback)
ClearTimeout(ts, handle) == RemoveTimer(ts, handle)
SetTimeout(ts, handle) ==
    MapSet(ts, handle, IF Has(ts, handle) THEN ts[handle] + 1 ELSE 1)
\* the timer is pending no more once its callback runs
TimerFired(ts, handle) == RemoveTimer(ts, handle)

\* a workspace/executeCommand request as the server receives it (epoch and hash
\* are what the scheduler logged for it)
Request(cmd, file, epoch, hash) ==
    [cmd |-> cmd, file |-> file, epoch |-> epoch, hash |-> hash]
Sent(reqs, r) == MapSet(reqs, r, IF Has(reqs, r) THEN reqs[r] + 1 ELSE 1)

VARIABLES
    \* vscode.workspace.textDocuments
    docText, docVersion, docOpen,
    \* ChangeTracker
    modifiedLines, documentVersions, contentHashes, lineDeltas,
    \* ScanScheduler
    lastScannedHash, lastScannedTimestamp, pendingScans, epochByFile,
    saveTimers, scanCalls, timers, idleTimer,
    lastAIScanVersion, lastAIScanHash, lastAIScanTimestamp,
    pendingAIRescans, aiBatchTimer, inflightAIScans, aiRescanStats,
    aiCalls,
    \* environment: server connection, configuration, requests sent so far
    lspClient, config, requests,
    \* FindingCorrelationService (stateless): the findings array handed to a
    \* call of the service, and the call's name and returned array
    svcArgs, svcResult,
    \* ScanScheduler: the event listeners in this.disposables that are still
    \* attached, and the in-flight AI scans whose CancellationTokenSource has
    \* been cancelled and disposed
    listeners, cancelledTokens,
    \* FindingDetailsService: the cache in insertion order, the waiters per
    \* finding id, serverSupportsDetails, this.lspClient, the fetchDetails
    \* calls waiting on fetchFromServer; and what each caller asked for, how its
    \* promise settled and the getFindingDetails requests sent per id
    cache, pendingRequests, serverSupportsDetails, detailsClient, detailCalls,
    callerAsked, settled, detailRequests,
    \* FindingsProvider
    findings, lastAppliedScanEpoch, loads,
    \* history: epochs whose results were applied, epoch of the displayed set,
    \* last output-channel entry, debounce windows (open per file, and closed)
    appliedEpochs, shownEpoch, lastLog, window, closedWindows

docVars == <<docText, docVersion, docOpen>>
trackerVars == <<modifiedLines, documentVersions, contentHashes, lineDeltas>>
detVars == <<lastScannedHash, lastScannedTimestamp, pendingScans, epochByFile,
             saveTimers, scanCalls>>
timerVars == <<timers, idleTimer, aiBatchTimer>>
windowVars == <<window, closedWindows>>
aiStateVars == <<lastAIScanVersion, lastAIScanHash, lastAIScanTimestamp>>
aiRunVars == <<pendingAIRescans, inflightAIScans, aiRescanStats, aiCalls>>
svcVars == <<svcArgs, svcResult>>
lifeVars == <<listeners, cancelledTokens>>
detailsVars == <<cache, pendingRequests, serverSupportsDetails, detailsClient,
                 detailCalls, callerAsked, settled, detailRequests>>
envVars == <<lspClient, config, svcVars, lifeVars, detailsVars>>
provVars == <<findings, lastAppliedScanEpoch, loads, appliedEpochs, shownEpoch>>
vars == <<docVars, trackerVars, detVars, timerVars, aiStateVars, aiRunVars,
          envVars, requests, provVars, lastLog, windowVars>>

\* the handles of the pending timers of a kind
PendingTimers(kind) == {t \in DOMAIN timers : t.kind = kind}

(***************************************************************************)
(* ChangeTracker                                                           *)
(***************************************************************************)
\* one element of event.contentChanges: range.start.line, range.end.line
\* (0-based) and the number of '\n' in change.text
Change(startLine, endLine, addedLines) ==
    [startLine |-> startLine, endLine |-> endLine, addedLines |-> addedLines]

\* the body of the for loop of onDocumentChanged, for one change
TrackChange(st, change) ==
    LET deletedLines == change.endLine - change.startLine
        delta == change.addedLines - deletedLines
        shiftStartLine == change.endLine + 1
        old == IF Has(st.deltas, shiftStartLine) THEN st.deltas[shiftStartLine] ELSE 0
    IN  [lines |-> st.lines \cup {l + 1 : l \in change.startLine .. change.endLine},
         deltas |-> IF delta # 0
                    THEN MapSet(st.deltas, shiftStartLine, old + delta)
                    ELSE st.deltas]

RECURSIVE TrackChanges(_, _)
TrackChanges(st, changes) ==
    IF changes = <<>> THEN st
    ELSE TrackChanges(TrackChange(st, Head(changes)), Tail(changes))

\* ChangeTracker.onDocumentChanged: the tracker state after the event
TrackedAfter(f, changes) ==
    TrackChanges([lines |-> IF Has(modifiedLines, f) THEN modifiedLines[f] ELSE {},
                  deltas |-> IF Has(lineDeltas, f) THEN lineDeltas[f] ELSE EmptyMap],
                 changes)

OnDocumentChanged(f, newVersion, changes) ==
    IF LanguageId(f) # "solidity"
    THEN UNCHANGED trackerVars
    ELSE /\ modifiedLines' = MapSet(modifiedLines, f, TrackedAfter(f, changes).lines)
         /\ lineDeltas' = MapSet(lineDeltas, f, TrackedAfter(f, changes).deltas)
         /\ documentVersions' = MapSet(documentVersions, f, newVersion)
         /\ UNCHANGED contentHashes

\* ChangeTracker.getContentHash: the value returned for the live document
GetContentHash(f) ==
    IF /\ Has(contentHashes, f)
       /\ Has(documentVersions, f)
       /\ documentVersions[f] = docVersion[f]
    THEN contentHashes[f]
    ELSE sha256(docText[f])

\* the sum of the deltas recorded at the shift lines of the set
RECURSIVE SumDeltas(_, _)
SumDeltas(deltas, shiftLines) ==
    IF shiftLines = {} THEN 0
    ELSE LET shiftLine == CHOOSE l \in shiftLines : TRUE
         IN  deltas[shiftLine] + SumDeltas(deltas, shiftLines \ {shiftLine})

\* an applyLineShift that adds every recorded delta, whatever its shift line
applyLineShiftEverywhere(filePath, originalLine) ==
    IF ~Has(lineDeltas, filePath) \/ DOMAIN lineDeltas[filePath] = {}
    THEN originalLine
    ELSE originalLine + SumDeltas(lineDeltas[filePath], DOMAIN lineDeltas[filePath])

\* ChangeTracker.applyLineShift
applyLineShift(filePath, originalLine) ==
    IF ~Has(lineDeltas, filePath) \/ DOMAIN lineDeltas[filePath] = {}
    THEN originalLine
    ELSE originalLine
           + SumDeltas(lineDeltas[filePath],
                       {shiftLine \in DOMAIN lineDeltas[filePath] : shiftLine <= originalLine})

\* ChangeTracker.getModifiedLines
GetModifiedLines(f) == IF Has(modifiedLines, f) THEN modifiedLines[f] ELSE {}

\* ChangeTracker.clearFile applied to every file of fs
ClearFiles(fs) ==
    /\ modifiedLines' = MapDelAll(modifiedLines, fs)
    /\ lineDeltas' = MapDelAll(lineDeltas, fs)

MapSetAll(m, g) ==
    [x \in (DOMAIN m) \cup (DOMAIN g) |-> IF x \in DOMAIN g THEN g[x] ELSE m[x]]

\* ChangeTracker.handleFileRename: the entries of oldPath are set for
\* newPath, then clearFile(oldPath)
handleFileRename(oldPath, newPath) ==
    LET copied(m) == IF Has(m, oldPath) THEN MapSet(m, newPath, m[oldPath]) ELSE m
    IN  /\ modifiedLines' = MapDel(copied(modifiedLines), oldPath)
        /\ lineDeltas' = MapDel(copied(lineDeltas), oldPath)
        /\ documentVersions' = copied(documentVersions)
        /\ contentHashes' = copied(contentHashes)

\* ChangeTracker.handleFileDelete: clearFile(filePath), then the hash
handleFileDelete(filePath) ==
    /\ modifiedLines' = MapDel(modifiedLines, filePath)
    /\ lineDeltas' = MapDel(lineDeltas, filePath)
    /\ contentHashes' = MapDel(contentHashes, filePath)
    /\ UNCHANGED documentVersions

\* ChangeTracker.isLineModified
isLineModified(filePath, line) ==
    Has(modifiedLines, filePath) /\ line \in modifiedLines[filePath]

(***************************************************************************)
(* Findings                                                                *)
(***************************************************************************)
\* getScannerType on the scanner ids of the model
getScannerType(scannerId) ==
    CASE scannerId = "llm_scanner" -> "llm"
      [] scannerId = "hybrid_reentrancy" -> "hybrid"
      [] scannerId = "source_reentrancy" -> "source"
      [] scannerId = "cranelift_reentrancy" -> "ir"
      [] OTHER -> "deterministic"

\* an ExtendedFinding; scannerType "" and endLine {} stand for an absent field
Finding(id, scannerId, scannerType, file, line, endLine, severity) ==
    [id |-> id, scannerId |-> scannerId, scannerType |-> scannerType,
     file |-> file, line |-> line, endLine |-> endLine, severity |-> severity]

\* ScanScheduler.filterAIFindings
filterAIFindings(all, f) ==
    {x \in all :
        LET scannerType == IF x.scannerType # "" THEN x.scannerType
                           ELSE IF x.scannerId # "" THEN getScannerType(x.scannerId)
                           ELSE "deterministic"
        IN  scannerType \in {"llm", "hybrid"} /\ x.file = f}

(***************************************************************************)
(* ScanScheduler.updateAIScanState                                         *)
(***************************************************************************)
\* an updateAIScanState that takes every scan type for 'hybrid'
UpdateAIScanStateBoth(files, scanType) ==
    LET live == {f \in files : docOpen[f]}
    IN  /\ contentHashes' = MapSetAll(contentHashes, [f \in live |-> GetContentHash(f)])
        /\ UNCHANGED documentVersions
        /\ lastAIScanHash' = MapSetAll(lastAIScanHash, [f \in live |-> GetContentHash(f)])
        /\ lastAIScanVersion' = MapSetAll(lastAIScanVersion, [f \in live |-> docVersion[f]])
        /\ lastAIScanTimestamp' = MapSetAll(lastAIScanTimestamp, [f \in live |-> Now])
        /\ ClearFiles(live)
        /\ lastScannedHash' = MapSetAll(lastScannedHash, [f \in live |-> GetContentHash(f)])
        /\ lastScannedTimestamp' = MapSetAll(lastScannedTimestamp, [f \in live |-> Now])

\* updateAIScanState(files, scanType); "undefined" is an absent scanType
UpdateAIScanState(files, scanType) ==
    LET live == {f \in files : docOpen[f]}
        Version(f) == docVersion[f]
        Stamp(f) == Now
        ai == scanType \in {"ai", "hybrid"}
        det == scanType \in {"deterministic", "hybrid", "undefined"}
    IN  /\ contentHashes' = MapSetAll(contentHashes, [f \in live |-> GetContentHash(f)])
        /\ UNCHANGED documentVersions
        /\ IF ai
           THEN /\ lastAIScanHash' = MapSetAll(lastAIScanHash, [f \in live |-> GetContentHash(f)])
                /\ lastAIScanVersion' = MapSetAll(lastAIScanVersion, [f \in live |-> Version(f)])
                /\ lastAIScanTimestamp' = MapSetAll(lastAIScanTimestamp, [f \in live |-> Stamp(f)])
                /\ ClearFiles(live)
           ELSE UNCHANGED <<aiStateVars, modifiedLines, lineDeltas>>
        /\ IF det
           THEN /\ lastScannedHash' = MapSetAll(lastScannedHash, [f \in live |-> GetContentHash(f)])
                /\ lastScannedTimestamp' = MapSetAll(lastScannedTimestamp, [f \in live |-> Stamp(f)])
           ELSE UNCHANGED <<lastScannedHash, lastScannedTimestamp>>

(***************************************************************************)
(* ScanScheduler: AI scans                                                 *)
(***************************************************************************)
\* what the caller of an awaited AI scan does after it: "save" (AI mode) and
\* "idle" do nothing, "smart" counts one trigger, "batch" goes on with the
\* files in rest and then counts n triggers, "batchWorkspace" counts n batched
Cont(tag, rest, n) == [tag |-> tag, rest |-> rest, n |-> n]
\* history: sentVersion is the version the document of the file had when the
\* request was sent
AICall(kind, file, cont) ==
    [kind |-> kind, file |-> file, cont |-> cont,
     sentVersion |-> IF file \in DOMAIN docVersion THEN docVersion[file] ELSE 0]

\* the scheduler state an AI trigger reads and writes
AIState ==
    [inflight |-> inflightAIScans, calls |-> aiCalls, reqs |-> requests,
     stats |-> aiRescanStats, suspended |-> FALSE]

\* a trigger that does not consult the in-flight registry
TriggerAIFileScanNoRegistry(a, f, cont) ==
    IF ~lspClient
    THEN [a EXCEPT !.suspended = FALSE]
    ELSE [a EXCEPT !.inflight = MapSet(@, f, "token"),
                   !.calls = @ \cup {AICall("file", f, cont)},
                   !.reqs = Sent(@, Request("llmScanFile", f, 0, NoHash)),
                   !.suspended = TRUE]

\* triggerAIFileScan up to its await
TriggerAIFileScan(a, f, cont) ==
    IF ~lspClient
    THEN [a EXCEPT !.suspended = FALSE]
    ELSE IF Has(a.inflight, f)
    THEN [a EXCEPT !.stats.deduplicated = @ + 1, !.suspended = FALSE]
    ELSE [a EXCEPT !.inflight = MapSet(@, f, "token"),
                   !.calls = @ \cup {AICall("file", f, cont)},
                   !.reqs = Sent(@, Request("llmScanFile", f, 0, NoHash)),
                   !.suspended = TRUE]

\* triggerAIWorkspaceScan up to its await
TriggerAIWorkspaceScan(a, cont) ==
    IF ~lspClient
    THEN [a EXCEPT !.suspended = FALSE]
    ELSE [a EXCEPT !.calls = @ \cup {AICall("workspace", "", cont)},
                   !.reqs = Sent(@, Request("llmScanWorkspace", "", 0, NoHash)),
                   !.suspended = TRUE]

\* the code after an awaited AI scan has returned, up to the next await
RECURSIVE Continue(_, _)
Continue(a, cont) ==
    CASE cont.tag = "smart" -> [a EXCEPT !.stats.triggered = @ + 1]
      [] cont.tag = "batchWorkspace" -> [a EXCEPT !.stats.batched = @ + cont.n]
      [] cont.tag = "batch" ->
            IF cont.rest = <<>>
            THEN [a EXCEPT !.stats.triggered = @ + cont.n]
            ELSE LET after == Cont("batch", Tail(cont.rest), cont.n)
                     next == TriggerAIFileScan(a, Head(cont.rest), after)
                 IN  IF next.suspended THEN next ELSE Continue(next, after)
      [] OTHER -> a

\* `await this.triggerAIFileScan(f, ...)` followed by the caller's code
AwaitAIFileScan(a, f, cont) ==
    LET r == TriggerAIFileScan(a, f, cont)
    IN  IF r.suspended THEN r ELSE Continue(r, cont)

\* `await this.triggerAIWorkspaceScan(...)` followed by the caller's code
AwaitAIWorkspaceScan(a, cont) ==
    LET r == TriggerAIWorkspaceScan(a, cont)
    IN  IF r.suspended THEN r ELSE Continue(r, cont)

SetAIState(a) ==
    /\ inflightAIScans' = a.inflight
    /\ aiCalls' = a.calls
    /\ requests' = a.reqs
    /\ aiRescanStats' = a.stats

(***************************************************************************)
(* ScanScheduler: smart AI rescan                                          *)
(***************************************************************************)
EndLineOf(x) == IF x.endLine = {} THEN x.line ELSE CHOOSE e \in x.endLine : TRUE

\* a context window one line too wide on either side
checkFindingsAffectedWide(aiFindings, modified, contextLines) ==
    {x \in aiFindings :
        \E line \in (x.line - contextLines - 1) .. (EndLineOf(x) + contextLines + 1) :
            line \in modified}

\* ScanScheduler.checkFindingsAffected
checkFindingsAffected(aiFindings, modified, contextLines) ==
    {x \in aiFindings :
        \E line \in (x.line - contextLines) .. (EndLineOf(x) + contextLines) :
            line \in modified}

\* Array.indexOf on severityOrder (0-based, -1 when absent)
SeverityIndex(sev) ==
    IF \E i \in 1 .. Len(Severities) : Severities[i] = sev
    THEN (CHOOSE i \in 1 .. Len(Severities) : Severities[i] = sev) - 1
    ELSE -1

\* ScanScheduler.filterBySeverity
filterBySeverity(fs, minSeverity) ==
    IF SeverityIndex(minSeverity) = -1 THEN fs
    ELSE {x \in fs : SeverityIndex(x.severity) >= SeverityIndex(minSeverity)}

\* a handleSmartAIRescan that skips on a matching hash whatever the version
SmartOutcomeHashOnly(f) ==
    LET aiFindings == filterAIFindings(findings, f)
        currentHash == GetContentHash(f)
        modified == GetModifiedLines(f)
        affected == checkFindingsAffected(aiFindings, modified, config.contextLines)
        filtered == filterBySeverity(affected, config.minSeverity)
    IN  IF config.smartRescan = "off" THEN "avoided.off"
        ELSE IF aiFindings = {} THEN "avoided.noFindings"
        ELSE IF Has(lastAIScanHash, f) /\ lastAIScanHash[f] = currentHash
        THEN "avoided.unchanged"
        ELSE IF modified = {} THEN "avoided.noLines"
        ELSE IF affected = {} THEN "avoided.unaffected"
        ELSE IF filtered = {} THEN "avoided.severity"
        ELSE IF config.smartRescan = "file" THEN "file"
        ELSE IF config.smartRescan = "batch" THEN "batch"
        ELSE "none"

\* the branch handleSmartAIRescan takes for the live document of f
SmartOutcome(f) ==
    LET aiFindings == filterAIFindings(findings, f)
        currentHash == GetContentHash(f)
        modified == GetModifiedLines(f)
        affected == checkFindingsAffected(aiFindings, modified, config.contextLines)
        filtered == filterBySeverity(affected, config.minSeverity)
    IN  IF config.smartRescan = "off" THEN "avoided.off"
        ELSE IF aiFindings = {} THEN "avoided.noFindings"
        ELSE IF /\ Has(lastAIScanHash, f) /\ lastAIScanHash[f] = currentHash
                /\ Has(lastAIScanTimestamp, f)
                /\ Has(lastAIScanVersion, f)
                /\ docVersion[f] <= lastAIScanVersion[f]
        THEN "avoided.unchanged"
        ELSE IF modified = {} THEN "avoided.noLines"
        ELSE IF affected = {} THEN "avoided.unaffected"
        ELSE IF filtered = {} THEN "avoided.severity"
        ELSE IF config.smartRescan = "file" THEN "file"
        ELSE IF config.smartRescan = "batch" THEN "batch"
        ELSE "none"

Avoided == {"avoided.off", "avoided.noFindings", "avoided.unchanged",
            "avoided.noLines", "avoided.unaffected", "avoided.severity"}

InSeq(q, x) == \E i \in 1 .. Len(q) : q[i] = x

\* ScanScheduler.scheduleAIBatchRescan (the timer callback is BatchTimerFires)
ScheduleAIBatchRescan(f) ==
    LET timer == Timer("batch", "", NoHash, config.batchThreshold, "")
    IN  /\ pendingAIRescans' = IF InSeq(pendingAIRescans, f) THEN pendingAIRescans
                               ELSE Append(pendingAIRescans, f)
        /\ timers' = SetTimeout(ClearTimeout(timers, aiBatchTimer), timer)
        /\ aiBatchTimer' = timer
        /\ UNCHANGED idleTimer

\* ScanScheduler.handleSmartAIRescan
HandleSmartAIRescan(f) ==
    LET outcome == SmartOutcome(f)
    IN  /\ contentHashes' = IF outcome \in {"avoided.off", "avoided.noFindings"}
                            THEN contentHashes
                            ELSE MapSet(contentHashes, f, GetContentHash(f))
        /\ UNCHANGED <<modifiedLines, documentVersions, lineDeltas>>
        /\ IF outcome \in Avoided
           THEN SetAIState([AIState EXCEPT !.stats.avoided = @ + 1])
           ELSE IF outcome = "file"
           THEN SetAIState(AwaitAIFileScan(AIState, f, Cont("smart", <<>>, 0)))
           ELSE SetAIState(AIState)
        /\ IF outcome = "batch"
           THEN ScheduleAIBatchRescan(f)
           ELSE UNCHANGED <<pendingAIRescans, timerVars>>

(***************************************************************************)
(* ScanScheduler.handleSave                                                *)
(***************************************************************************)
isSolidityOrYul(f) ==
    \/ LanguageId(f) = "solidity"
    \/ LanguageId(f) = "yul"
    \/ FileExtension(f) = ".sol"
    \/ FileExtension(f) = ".yul"

EpochOf(f) == IF Has(epochByFile, f) THEN epochByFile[f] ELSE 0

\* a handleSave without the return for onSaveMode 'off'
SavePathWithoutOff(f) ==
    LET hash == hashContent(docText[f])
        aiFindings == filterAIFindings(findings, f)
    IN  IF config.onSave = "none" THEN "none"
        ELSE IF ~isSolidityOrYul(f) THEN "ignored"
        ELSE IF /\ config.onSaveMode = "smart"
                /\ config.smartRescan # "off"
                /\ aiFindings # {}
        THEN IF Has(lastAIScanHash, f) /\ lastAIScanHash[f] = hash
             THEN "smart.unchanged"
             ELSE "smart"
        ELSE IF config.onSaveMode = "ai" THEN "ai"
        ELSE IF Has(lastScannedHash, f) /\ lastScannedHash[f] = hash THEN "unchanged"
        ELSE "schedule"

\* the branch handleSave takes for the live document of f
SavePath(f) ==
    LET hash == hashContent(docText[f])
        aiFindings == filterAIFindings(findings, f)
    IN  IF config.onSave = "none" THEN "none"
        ELSE IF ~isSolidityOrYul(f) THEN "ignored"
        ELSE IF config.onSaveMode = "off" THEN "off"
        ELSE IF /\ config.onSaveMode = "smart"
                /\ config.smartRescan # "off"
                /\ aiFindings # {}
        THEN IF Has(lastAIScanHash, f) /\ lastAIScanHash[f] = hash
             THEN "smart.unchanged"
             ELSE "smart"
        ELSE IF config.onSaveMode = "ai" THEN "ai"
        ELSE IF Has(lastScannedHash, f) /\ lastScannedHash[f] = hash THEN "unchanged"
        ELSE "schedule"

\* a save that takes a new epoch only when no debounce timer is pending
NextEpochCoalesced(f) == IF Has(saveTimers, f) THEN EpochOf(f) ELSE EpochOf(f) + 1

\* the epoch a scheduling save allocates
NextEpochOf(f) == EpochOf(f) + 1

\* lines 211-227: a new epoch, the pending entry and the debounce timer
ScheduleSave(f) ==
    LET hash == hashContent(docText[f])
        epoch == NextEpochOf(f)
        scope == IF config.onSave = "workspace" THEN "workspace" ELSE "file"
        timer == Timer("save", f, hash, epoch, scope)
    IN  /\ epoch <= MaxFileEpoch
        /\ epochByFile' = MapSet(epochByFile, f, epoch)
        /\ pendingScans' = MapSet(pendingScans, f, [hash |-> hash, epoch |-> epoch])
        /\ timers' = SetTimeout(IF Has(saveTimers, f)
                                THEN ClearTimeout(timers, saveTimers[f])
                                ELSE timers, timer)
        /\ saveTimers' = MapSet(saveTimers, f, timer)
        /\ window' = MapSet(window, f,
                        IF Has(window, f)
                        THEN [window[f] EXCEPT !.saves = @ + 1, !.hash = hash]
                        ELSE [base |-> epoch - 1, saves |-> 1, hash |-> hash])
        /\ UNCHANGED <<lastScannedHash, lastScannedTimestamp, scanCalls, idleTimer,
                       aiBatchTimer, closedWindows>>

\* vscode.workspace.onDidSaveTextDocument -> handleSave(document)
HandleSave(f) ==
    /\ "save" \in listeners
    /\ docOpen[f]
    /\ \A k \in DOMAIN aiRescanStats : aiRescanStats[k] < MaxStat
    /\ SavePath(f) = "ai" =>
          \A r \in DOMAIN requests : r.cmd = "llmScanFile" => requests[r] < MaxStat
    /\ SavePath(f) = "smart" /\ SmartOutcome(f) = "batch" =>
          \A r \in DOMAIN requests :
              r.cmd = "llmScanWorkspace" => requests[r] < MaxIdleScans
    /\ LET path == SavePath(f)
       IN  /\ IF path = "schedule"
              THEN /\ ScheduleSave(f)
                   /\ UNCHANGED <<trackerVars, aiRunVars, requests>>
              ELSE IF path = "smart"
              THEN /\ HandleSmartAIRescan(f)
                   /\ UNCHANGED <<detVars, windowVars>>
              ELSE IF path = "ai"
              THEN /\ SetAIState(AwaitAIFileScan(AIState, f, Cont("save", <<>>, 0)))
                   /\ UNCHANGED <<trackerVars, detVars, timerVars, pendingAIRescans,
                                  windowVars>>
              ELSE UNCHANGED <<trackerVars, detVars, timerVars, aiRunVars, requests,
                               windowVars>>
           /\ lastLog' = <<"save", f, IF path = "smart" THEN SmartOutcome(f) ELSE path>>
    /\ UNCHANGED <<docVars, aiStateVars, envVars, provVars>>

(***************************************************************************)
(* ScanScheduler: the debounced save scan                                  *)
(***************************************************************************)
ScanCall(t, pc) ==
    [file |-> t.file, hash |-> t.hash, epoch |-> t.num, scope |-> t.arg, pc |-> pc]

\* history: the debounce window of a file ends when the timer of its latest save
\* fires; closedWindows keeps the window of each file that ended last
CloseWindow(t) ==
    IF Has(window, t.file) /\ t.num = window[t.file].base + window[t.file].saves
    THEN /\ window' = MapDel(window, t.file)
         /\ closedWindows' = MapSet(closedWindows, t.file,
                 [base |-> window[t.file].base,
                  saves |-> window[t.file].saves, hash |-> window[t.file].hash,
                  clientAtFire |-> lspClient, checked |-> FALSE,
                  sameAtCheck |-> FALSE, over |-> ~lspClient])
    ELSE UNCHANGED windowVars

\* history: the attempt of a closed window has made its hash check
NoteChecked(c, same) ==
    closedWindows' =
        IF Has(closedWindows, c.file)
           /\ closedWindows[c.file].base + closedWindows[c.file].saves = c.epoch
        THEN MapSet(closedWindows, c.file,
                 [closedWindows[c.file] EXCEPT !.checked = TRUE,
                                               !.sameAtCheck = same, !.over = TRUE])
        ELSE closedWindows

\* the save-debounce timer callback: saveTimers.delete, then
\* scheduleScanWithEpoch up to its first await (the 500 ms delay).  A debounce
\* timer set after an attempt entered its delay cannot fire before that delay
\* has elapsed.
SaveTimerFires(t) ==
    /\ t \in PendingTimers("save")
    /\ LSP_SAVE_PROCESS_DELAY_MS < SAVE_DEBOUNCE_MS
          => ~\E c \in scanCalls : c.file = t.file /\ c.pc = "delay"
    /\ timers' = TimerFired(timers, t)
    /\ saveTimers' = MapDel(saveTimers, t.file)
    /\ scanCalls' = IF lspClient THEN scanCalls \cup {ScanCall(t, "delay")}
                    ELSE scanCalls
    /\ CloseWindow(t)
    /\ lastLog' = <<"timer", t.file, IF lspClient THEN "scan.delay" ELSE "scan.noClient">>
    /\ UNCHANGED <<docVars, trackerVars, lastScannedHash, lastScannedTimestamp,
                   pendingScans, epochByFile, idleTimer, aiBatchTimer, aiStateVars,
                   aiRunVars, envVars, requests, provVars>>

\* an attempt that ignores the live document
ContentChangedNever(c) == FALSE

\* the hash check of scheduleScanWithEpoch, made only when the document is open
ContentChanged(c) == docOpen[c.file] /\ hashContent(docText[c.file]) # c.hash

\* scheduleScanWithEpoch after the delay: the hash check, then the request
ScanCallResumes(c) ==
    /\ c \in scanCalls /\ c.pc = "delay"
    /\ LET changed == ContentChanged(c)
       IN  /\ IF changed
              THEN /\ pendingScans' = MapDel(pendingScans, c.file)
                   /\ scanCalls' = scanCalls \ {c}
                   /\ UNCHANGED requests
              ELSE /\ requests' = Sent(requests,
                          Request(IF c.scope = "workspace" THEN "scanWorkspace"
                                  ELSE "scanFile", c.file, c.epoch, c.hash))
                   /\ scanCalls' = (scanCalls \ {c}) \cup {[c EXCEPT !.pc = "request"]}
                   /\ UNCHANGED pendingScans
           /\ NoteChecked(c, ~changed)
           /\ lastLog' = <<"scan", c.file, IF changed THEN "cancelled" ELSE "sent">>
    /\ UNCHANGED <<docVars, trackerVars, lastScannedHash, lastScannedTimestamp,
                   epochByFile, saveTimers, timerVars, aiStateVars, aiRunVars,
                   envVars, provVars, window>>

\* the scan request is acknowledged
ScanRequestOk(c) ==
    /\ c \in scanCalls /\ c.pc = "request"
    /\ scanCalls' = scanCalls \ {c}
    /\ lastLog' = <<"scan", c.file, "ok">>
    /\ UNCHANGED <<docVars, trackerVars, lastScannedHash, lastScannedTimestamp,
                   pendingScans, epochByFile, saveTimers, timerVars, aiStateVars,
                   aiRunVars, envVars, requests, provVars, windowVars>>

\* the scan request is rejected: the catch block
ScanRequestFails(c) ==
    /\ c \in scanCalls /\ c.pc = "request"
    /\ scanCalls' = scanCalls \ {c}
    /\ pendingScans' = MapDel(pendingScans, c.file)
    /\ lastLog' = <<"scan", c.file, "failed">>
    /\ UNCHANGED <<docVars, trackerVars, lastScannedHash, lastScannedTimestamp,
                   epochByFile, saveTimers, timerVars, aiStateVars, aiRunVars,
                   envVars, requests, provVars, windowVars>>

\* a listener that takes any diagnostics for the result of the pending scan
DiagnosticsOutcomeUnchecked(f) ==
    IF ~Has(pendingScans, f) THEN "noPending"
    ELSE IF ~docOpen[f] THEN "noDocument"
    ELSE "fresh"

\* the branch the diagnostics listener takes for f
DiagnosticsOutcome(f) ==
    IF ~Has(pendingScans, f) THEN "noPending"
    ELSE IF ~docOpen[f] THEN "noDocument"
    ELSE IF hashContent(docText[f]) = pendingScans[f].hash THEN "fresh"
    ELSE "stale"

\* vscode.languages.onDidChangeDiagnostics for the uri of f
DidChangeDiagnostics(f) ==
    /\ "diagnostics" \in listeners
    /\ IF DiagnosticsOutcome(f) = "fresh"
       THEN /\ lastScannedHash' = MapSet(lastScannedHash, f, hashContent(docText[f]))
            /\ lastScannedTimestamp' = MapSet(lastScannedTimestamp, f, Now)
            /\ pendingScans' = MapDel(pendingScans, f)
       ELSE UNCHANGED <<lastScannedHash, lastScannedTimestamp, pendingScans>>
    /\ lastLog' = <<"diagnostics", f, DiagnosticsOutcome(f)>>
    /\ UNCHANGED <<docVars, trackerVars, epochByFile, saveTimers, scanCalls,
                   timerVars, aiStateVars, aiRunVars, envVars, requests, provVars,
                   windowVars>>

(***************************************************************************)
(* ScanScheduler: completion of AI scans, the batch timer                  *)
(***************************************************************************)
\* llmScanFile is acknowledged: the bookkeeping, the finally block, the caller
AIFileScanOk(c) ==
    /\ c \in aiCalls /\ c.kind = "file"
    /\ IF docOpen[c.file]
       THEN /\ lastAIScanVersion' = MapSet(lastAIScanVersion, c.file, docVersion[c.file])
            /\ lastAIScanHash' = MapSet(lastAIScanHash, c.file, GetContentHash(c.file))
            /\ lastAIScanTimestamp' = MapSet(lastAIScanTimestamp, c.file, Now)
            /\ contentHashes' = MapSet(contentHashes, c.file, GetContentHash(c.file))
            /\ ClearFiles({c.file})
            /\ UNCHANGED documentVersions
       ELSE UNCHANGED <<aiStateVars, trackerVars>>
    /\ SetAIState(Continue([AIState EXCEPT !.inflight = MapDel(@, c.file),
                                           !.calls = @ \ {c}], c.cont))
    /\ lastLog' = <<"ai", c.file, "ok">>
    /\ UNCHANGED <<docVars, detVars, timerVars, pendingAIRescans, envVars, provVars,
                   windowVars>>

\* llmScanFile is rejected: the catch block, the finally block, the caller
AIFileScanFails(c) ==
    /\ c \in aiCalls /\ c.kind = "file"
    /\ SetAIState(Continue([AIState EXCEPT !.inflight = MapDel(@, c.file),
                                           !.calls = @ \ {c}], c.cont))
    /\ lastLog' = <<"ai", c.file, "failed">>
    /\ UNCHANGED <<docVars, trackerVars, detVars, timerVars, aiStateVars,
                   pendingAIRescans, envVars, provVars, windowVars>>

\* llmScanWorkspace is acknowledged
AIWorkspaceScanOk(c) ==
    /\ c \in aiCalls /\ c.kind = "workspace"
    /\ lastAIScanVersion' = EmptyMap
    /\ lastAIScanHash' = EmptyMap
    /\ modifiedLines' = EmptyMap
    /\ lineDeltas' = EmptyMap
    /\ SetAIState(Continue([AIState EXCEPT !.calls = @ \ {c}], c.cont))
    /\ lastLog' = <<"aiWorkspace", "", "ok">>
    /\ UNCHANGED <<docVars, documentVersions, contentHashes, detVars, timerVars,
                   lastAIScanTimestamp, pendingAIRescans, envVars, provVars,
                   windowVars>>

\* llmScanWorkspace is rejected
AIWorkspaceScanFails(c) ==
    /\ c \in aiCalls /\ c.kind = "workspace"
    /\ SetAIState(Continue([AIState EXCEPT !.calls = @ \ {c}], c.cont))
    /\ lastLog' = <<"aiWorkspace", "", "failed">>
    /\ UNCHANGED <<docVars, trackerVars, detVars, timerVars, aiStateVars,
                   pendingAIRescans, envVars, provVars, windowVars>>

\* the AI batch timer callback
BatchTimerFires(t) ==
    /\ t \in PendingTimers("batch")
    /\ timers' = TimerFired(timers, t)
    /\ pendingAIRescans' = <<>>
    /\ LET files == pendingAIRescans
       IN  IF files = <<>>
           THEN SetAIState(AIState)
           ELSE IF Len(files) >= t.num
           THEN SetAIState(AwaitAIWorkspaceScan(AIState,
                               Cont("batchWorkspace", <<>>, Len(files))))
           ELSE SetAIState(Continue(AIState, Cont("batch", files, Len(files))))
    /\ lastLog' = <<"batchTimer", "", "">>
    /\ UNCHANGED <<docVars, trackerVars, detVars, idleTimer, aiBatchTimer,
                   aiStateVars, envVars, provVars, windowVars>>

\* ScanScheduler.scheduleScan for the workspace scope, up to its await; what
\* follows the await writes lastWorkspaceScan only
ScheduleWorkspaceScan(reqs) ==
    IF ~lspClient THEN reqs
    ELSE Sent(reqs, Request("scanWorkspace", "", 0, NoHash))

\* the idle timer callback
IdleTimerFires(t) ==
    /\ t \in PendingTimers("idle")
    /\ timers' = TimerFired(timers, t)
    /\ IF t.arg = "ai-workspace"
       THEN SetAIState(AwaitAIWorkspaceScan(AIState, Cont("idle", <<>>, 0)))
       ELSE IF t.arg = "workspace"
       THEN SetAIState([AIState EXCEPT !.reqs = ScheduleWorkspaceScan(@)])
       ELSE SetAIState(AIState)
    /\ lastLog' = <<"idleTimer", "", t.arg>>
    /\ UNCHANGED <<docVars, trackerVars, detVars, idleTimer, aiBatchTimer,
                   aiStateVars, pendingAIRescans, envVars, provVars, windowVars>>

(***************************************************************************)
(* Documents closing and opening                                           *)
(***************************************************************************)
CloseDocument(f) ==
    /\ docOpen[f]
    /\ docOpen' = [docOpen EXCEPT ![f] = FALSE]
    /\ lastLog' = <<"close", f, "">>
    /\ UNCHANGED <<docText, docVersion, trackerVars, detVars, timerVars, aiStateVars,
                   aiRunVars, envVars, requests, provVars, windowVars>>

\* a reopened document is a new TextDocument: version 1, the text on disk
OpenDocument(f, text) ==
    /\ ~docOpen[f]
    /\ docOpen' = [docOpen EXCEPT ![f] = TRUE]
    /\ docText' = [docText EXCEPT ![f] = text]
    /\ docVersion' = [docVersion EXCEPT ![f] = 1]
    /\ lastLog' = <<"open", f, "">>
    /\ UNCHANGED <<trackerVars, detVars, timerVars, aiStateVars, aiRunVars, envVars,
                   requests, provVars, windowVars>>

\* vscode.workspace.onDidRenameFiles for one file: the document of the old
\* path is closed and one of the new path, a new TextDocument with the same
\* text, is open; the listener calls changeTracker.handleFileRename
DidRenameFiles(oldPath, newPath) ==
    /\ oldPath # newPath
    /\ docOpen[oldPath]
    /\ docOpen' = [docOpen EXCEPT ![oldPath] = FALSE, ![newPath] = TRUE]
    /\ docText' = [docText EXCEPT ![newPath] = docText[oldPath]]
    /\ docVersion' = [docVersion EXCEPT ![newPath] = 1]
    /\ handleFileRename(oldPath, newPath)
    /\ lastLog' = <<"rename", oldPath, newPath>>
    /\ UNCHANGED <<detVars, timerVars, aiStateVars, aiRunVars, envVars, requests,
                   provVars, windowVars>>

\* vscode.workspace.onDidDeleteFiles for one file: its document is closed;
\* the listener calls changeTracker.handleFileDelete
DidDeleteFiles(filePath) ==
    /\ docOpen[filePath]
    /\ docOpen' = [docOpen EXCEPT ![filePath] = FALSE]
    /\ handleFileDelete(filePath)
    /\ lastLog' = <<"delete", filePath, "">>
    /\ UNCHANGED <<docText, docVersion, detVars, timerVars, aiStateVars, aiRunVars,
                   envVars, requests, provVars, windowVars>>

(***************************************************************************)
(* Document edits                                                          *)
(***************************************************************************)
\* a reset that does not cancel the pending idle timer
ResetIdleTimerStacked ==
    IF ~config.idleEnabled \/ config.idleMode = "off"
    THEN UNCHANGED timerVars
    ELSE LET timer == Timer("idle", "", NoHash, 0, config.idleMode)
         IN  /\ timers' = SetTimeout(timers, timer)
             /\ idleTimer' = timer
             /\ UNCHANGED aiBatchTimer

\* ScanScheduler.resetIdleTimer (the timer callback is IdleTimerFires)
ResetIdleTimer ==
    IF ~config.idleEnabled \/ config.idleMode = "off"
    THEN UNCHANGED timerVars
    ELSE LET timer == Timer("idle", "", NoHash, 0, config.idleMode)
         IN  /\ timers' = SetTimeout(ClearTimeout(timers, idleTimer), timer)
             /\ idleTimer' = timer
             /\ UNCHANGED aiBatchTimer

\* vscode.workspace.onDidChangeTextDocument: the edit, then the listeners of
\* ChangeTracker and ScanScheduler
DidChangeTextDocument(f, newText, changes) ==
    /\ docOpen[f]
    /\ docVersion[f] < MaxVersion
    /\ docText' = [docText EXCEPT ![f] = newText]
    /\ docVersion' = [docVersion EXCEPT ![f] = @ + 1]
    /\ OnDocumentChanged(f, docVersion[f] + 1, changes)
    /\ IF "change" \in listeners THEN ResetIdleTimer ELSE UNCHANGED timerVars
    /\ lastLog' = <<"change", f, changes>>
    /\ UNCHANGED <<docOpen, detVars, aiStateVars, aiRunVars, envVars, requests,
                   provVars, windowVars>>

\* vscode.window.onDidChangeTextEditorSelection: the listener of ScanScheduler
DidChangeTextEditorSelection ==
    /\ "selection" \in listeners
    /\ \A r \in DOMAIN requests :
          r.cmd \in {"scanWorkspace", "llmScanWorkspace"} => requests[r] < MaxIdleScans
    /\ ResetIdleTimer
    /\ lastLog' = <<"selection", "", "">>
    /\ UNCHANGED <<docVars, trackerVars, detVars, aiStateVars, aiRunVars, envVars,
                   requests, provVars, windowVars>>

(***************************************************************************)
(* ScanScheduler.dispose                                                   *)
(***************************************************************************)
\* a dispose that clears the save timers only
ClearSaveTimersOnly(ts) ==
    LET cleared == {saveTimers[f] : f \in DOMAIN saveTimers}
    IN  [h \in {x \in DOMAIN ts : x \notin cleared \/ ts[x] > 1} |->
            IF h \in cleared THEN ts[h] - 1 ELSE ts[h]]

\* the pending timers after clearTimeout on every save timer, on idleTimer
\* and on aiBatchTimer
ClearAllTimers(ts) ==
    LET cleared == {saveTimers[f] : f \in DOMAIN saveTimers} \cup {idleTimer, aiBatchTimer}
    IN  [h \in {x \in DOMAIN ts : x \notin cleared \/ ts[x] > 1} |->
            IF h \in cleared THEN ts[h] - 1 ELSE ts[h]]

\* dispose(): the fields idleTimer and aiBatchTimer keep their handles
Dispose ==
    /\ timers' = ClearAllTimers(timers)
    /\ saveTimers' = EmptyMap
    /\ cancelledTokens' = cancelledTokens \cup
          {c \in aiCalls : c.kind = "file" /\ Has(inflightAIScans, c.file)}
    /\ inflightAIScans' = EmptyMap
    /\ listeners' = {}
    /\ lastLog' = <<"dispose", "", "">>
    /\ UNCHANGED <<docVars, trackerVars, lastScannedHash, lastScannedTimestamp,
                   pendingScans, epochByFile, scanCalls, idleTimer, aiBatchTimer,
                   aiStateVars, pendingAIRescans, aiRescanStats, aiCalls, lspClient,
                   config, svcVars, detailsVars, requests, provVars, windowVars>>

(***************************************************************************)
(* FindingsProvider.loadFindingsWithEpoch and LSPClient.handleFindingsUpdated *)
(***************************************************************************)
FreeLoadId == CHOOSE i \in 1 .. MaxLoads + 1 : i \notin DOMAIN loads

\* loadFindingsWithEpoch up to its first await
LoadFindingsWithEpoch(scanEpoch) ==
    IF scanEpoch <= lastAppliedScanEpoch
    THEN UNCHANGED provVars
    ELSE /\ Cardinality(DOMAIN loads) < MaxLoads
         /\ loads' = MapSet(loads, FreeLoadId, [epoch |-> scanEpoch, pc |-> "import"])
         /\ UNCHANGED <<findings, lastAppliedScanEpoch, appliedEpochs, shownEpoch>>

LoadFindings == LoadFindingsWithEpoch(0)

\* the notification handler; scanEpoch is <<>> (absent) or <<e>>
HandleFindingsUpdated(files, scanEpoch, scanType) ==
    /\ IF files # {}
       THEN UpdateAIScanState(files, scanType)
       ELSE UNCHANGED <<trackerVars, aiStateVars, lastScannedHash, lastScannedTimestamp>>
    /\ IF scanEpoch # <<>>
       THEN LoadFindingsWithEpoch(scanEpoch[1])
       ELSE LoadFindings
    /\ cache' = <<>>
    /\ lastLog' = <<"findingsUpdated", scanEpoch,
                    IF loads' # loads THEN "loading" ELSE "ignored", files>>
    /\ UNCHANGED <<pendingRequests, serverSupportsDetails, detailsClient, detailCalls,
                   callerAsked, settled, detailRequests>>
    /\ UNCHANGED <<docVars, pendingScans, epochByFile, saveTimers, scanCalls,
                   timerVars, aiRunVars, lspClient, config, svcVars, lifeVars,
                   requests, windowVars>>

\* after `await import('../extension')`: no client, or the getFindings request
LoadResume(id) ==
    /\ Has(loads, id) /\ loads[id].pc = "import"
    /\ IF ~lspClient
       THEN /\ findings' = {}
            /\ shownEpoch' = 0
            /\ loads' = MapDel(loads, id)
            /\ lastLog' = <<"load.noClient", loads[id].epoch, "">>
       ELSE /\ loads' = MapSet(loads, id, [loads[id] EXCEPT !.pc = "request"])
            /\ lastLog' = <<"load.request", loads[id].epoch, "">>
            /\ UNCHANGED <<findings, shownEpoch>>
    /\ UNCHANGED <<lastAppliedScanEpoch, appliedEpochs>>
    /\ UNCHANGED <<docVars, trackerVars, detVars, timerVars, aiStateVars,
                   aiRunVars, envVars, requests, windowVars>>

\* the getFindings response arrives: response.findings (or none) is applied
GetFindingsResponse(id, response) ==
    /\ Has(loads, id) /\ loads[id].pc = "request"
    /\ findings' = IF response.hasFindings THEN response.findings ELSE {}
    /\ lastAppliedScanEpoch' = loads[id].epoch
    /\ appliedEpochs' = appliedEpochs \cup {loads[id].epoch}
    /\ shownEpoch' = loads[id].epoch
    /\ loads' = MapDel(loads, id)
    /\ lastLog' = <<"load.applied", loads[id].epoch, "">>
    /\ UNCHANGED <<docVars, trackerVars, detVars, timerVars, aiStateVars,
                   aiRunVars, envVars, requests, windowVars>>

\* the getFindings request is rejected: the catch block
GetFindingsError(id) ==
    /\ Has(loads, id) /\ loads[id].pc = "request"
    /\ findings' = {}
    /\ shownEpoch' = 0
    /\ loads' = MapDel(loads, id)
    /\ lastLog' = <<"load.failed", loads[id].epoch, "">>
    /\ UNCHANGED <<lastAppliedScanEpoch, appliedEpochs>>
    /\ UNCHANGED <<docVars, trackerVars, detVars, timerVars, aiStateVars,
                   aiRunVars, envVars, requests, windowVars>>

\* the language client starts or stops
ClientChange ==
    /\ lspClient' = ~lspClient
    /\ lastLog' = <<"client", "", "">>
    /\ UNCHANGED <<docVars, trackerVars, detVars, timerVars, aiStateVars,
                   aiRunVars, config, svcVars, lifeVars, detailsVars, requests, provVars,
                   windowVars>>

(***************************************************************************)
(* FindingCorrelationService                                               *)
(***************************************************************************)
\* an ExtendedFinding as the service reads it.  rule is <<prefix, rest>> (the
\* rule string is prefix followed by rest); title and description are
\* sequences of text parts; findingType "" and relatedTo "" (the field
\* metadata.related_to) stand for absent fields; correlationMetadata is <<>>
\* when absent; mergedFrom and scannerIds are metadata.merged_from and
\* metadata.scanner_ids
ExtendedFinding(base, rule, findingType, title, relatedTo, correlationMetadata) ==
    base @@ [rule |-> rule, findingType |-> findingType, title |-> <<title>>,
             description |-> <<base.id>>, relatedTo |-> relatedTo,
             correlationMetadata |-> correlationMetadata,
             mergedFrom |-> <<>>, scannerIds |-> <<>>,
             confidence |-> "medium", augmentedAt |-> FALSE,
             augmentedData |-> <<>>, metadataAugmentedData |-> <<>>]

\* an AugmentedData object in a one-element sequence (<<>> is an absent
\* object); analysis "" and risk <<>> stand for absent fields
AugmentedData(analysis, risk) ==
    <<[contextualAnalysis |-> analysis, riskScore |-> risk]>>

\* the for loop of mergeAugmentedData from position k on
RECURSIVE MergeAugmentedFrom(_, _, _)
MergeAugmentedFrom(dataArray, k, merged) ==
    IF k > Len(dataArray) THEN merged
    ELSE LET data == dataArray[k]
             max(a, b) == IF a >= b THEN a ELSE b
         IN  MergeAugmentedFrom(dataArray, k + 1,
                [contextualAnalysis |->
                     IF data.contextualAnalysis # "" THEN data.contextualAnalysis
                     ELSE merged.contextualAnalysis,
                 riskScore |->
                     IF data.riskScore # <<>>
                     THEN <<max(IF merged.riskScore = <<>> THEN 0 ELSE merged.riskScore[1],
                                data.riskScore[1])>>
                     ELSE merged.riskScore])

mergeAugmentedData(dataArray) ==
    <<MergeAugmentedFrom(dataArray, 1, [contextualAnalysis |-> "", riskScore |-> <<>>])>>

\* a CorrelationMetadata object; "" and <<>> stand for absent fields
CorrelationMetadata(ids, type, score, agreement, boost) ==
    [relatedFindingIds |-> ids, correlationType |-> type,
     correlationScore |-> score, scannerAgreement |-> agreement,
     confidenceBoost |-> boost]

findingsOverlap(f1, f2) ==
    IF f1.file # f2.file
    THEN FALSE
    ELSE ~(EndLineOf(f1) < f2.line \/ EndLineOf(f2) < f1.line)

findingsAreSimilarType(f1, f2) ==
    LET ruleBase(rule) == IF rule[1] \in {"source_", "hybrid_", "cranelift_"}
                          THEN <<"", rule[2]>>
                          ELSE rule
    IN  IF f1.findingType # "" /\ f2.findingType # "" /\ f1.findingType = f2.findingType
        THEN TRUE
        ELSE ruleBase(f1.rule) = ruleBase(f2.rule) /\ ruleBase(f1.rule) # <<"", "">>

\* calculateLocationOverlap without its test for an empty intersection
calculateLocationOverlapUnguarded(f1, f2) ==
    LET overlapStart == Max({f1.line, f2.line})
        f1End == EndLineOf(f1)
        f2End == EndLineOf(f2)
        overlapEnd == IF f1End < f2End THEN f1End ELSE f2End
    IN  <<overlapEnd - overlapStart + 1,
          Max({f1End - f1.line + 1, f2End - f2.line + 1})>>

\* the quotient overlapLines / totalLines as the pair <<overlapLines, totalLines>>
calculateLocationOverlap(f1, f2) ==
    IF f1.file # f2.file
    THEN <<0, 1>>
    ELSE LET f1Start == f1.line
             f1End == EndLineOf(f1)
             f2Start == f2.line
             f2End == EndLineOf(f2)
             overlapStart == Max({f1Start, f2Start})
             overlapEnd == IF f1End < f2End THEN f1End ELSE f2End
         IN  IF overlapEnd < overlapStart
             THEN <<0, 1>>
             ELSE <<overlapEnd - overlapStart + 1,
                    Max({f1End - f1Start + 1, f2End - f2Start + 1})>>

\* the score as the fraction <<numerator, denominator>>: 0.4 * overlap, 0.4 for
\* similar types, 0.1 for equal severities, 0.1 for a related_to reference,
\* at most 1.  On the line ranges of this model (1, 3 and 7 lines) the
\* double arithmetic of the code and exact arithmetic agree on every
\* comparison with 0.7, 0.8, 0.85 and 1.
calculateCorrelationScore(finding1, finding2) ==
    LET overlapAmount == IF findingsOverlap(finding1, finding2)
                         THEN calculateLocationOverlap(finding1, finding2)
                         ELSE <<0, 1>>
        tenths == (IF findingsAreSimilarType(finding1, finding2) THEN 4 ELSE 0)
                  + (IF finding1.severity = finding2.severity THEN 1 ELSE 0)
                  + (IF finding1.relatedTo = finding2.id \/ finding2.relatedTo = finding1.id
                     THEN 1 ELSE 0)
        num == 4 * overlapAmount[1] + tenths * overlapAmount[2]
        den == 10 * overlapAmount[2]
    IN  IF num > den THEN <<den, den>> ELSE <<num, den>>

determineScannerAgreement(f1, f2) ==
    LET severityMatch == f1.severity = f2.severity
        typeMatch == findingsAreSimilarType(f1, f2)
    IN  IF severityMatch /\ typeMatch THEN "full"
        ELSE IF severityMatch \/ typeMatch THEN "partial"
        ELSE "conflict"

inferCorrelationType(f1, f2, score) ==
    LET type1 == getScannerType(f1.scannerId)
        type2 == getScannerType(f2.scannerId)
        severityOrder == <<"low", "medium", "high", "critical">>
        indexOf(sev) == IF \E i \in 1 .. 4 : severityOrder[i] = sev
                        THEN (CHOOSE i \in 1 .. 4 : severityOrder[i] = sev) - 1
                        ELSE -1
        diff == indexOf(f1.severity) - indexOf(f2.severity)
    IN  IF (type1 = "llm" /\ type2 = "deterministic")
           \/ (type1 = "deterministic" /\ type2 = "llm")
        THEN "augmentation"
        ELSE IF score[1] * 100 > 85 * score[2] /\ type1 = type2
        THEN "duplicate"
        ELSE IF diff > 1 \/ diff < -1
        THEN "conflict"
        ELSE "related"

\* one half of linkFindings: f1 after it has been linked to f2
LinkTo(f1, f2, score) ==
    LET old == IF f1.correlationMetadata = <<>>
               THEN CorrelationMetadata(<<>>, "", <<>>, "", <<>>)
               ELSE f1.correlationMetadata[1]
    IN  [f1 EXCEPT !.correlationMetadata = <<
           [old EXCEPT
              !.relatedFindingIds =
                  IF InSeq(old.relatedFindingIds, f2.id)
                  THEN old.relatedFindingIds
                  ELSE Append(old.relatedFindingIds, f2.id),
              !.correlationScore =
                  IF old.correlationScore = <<>> THEN score ELSE old.correlationScore,
              !.correlationType =
                  IF old.correlationType = ""
                  THEN inferCorrelationType(f1, f2, score)
                  ELSE old.correlationType,
              !.scannerAgreement =
                  IF old.scannerAgreement = ""
                  THEN determineScannerAgreement(f1, f2)
                  ELSE old.scannerAgreement]>>]

\* a linkFindings that records the link on the first finding only
linkFindingsOneWay(fs, i, j, score) ==
    [fs EXCEPT ![i] = LinkTo(fs[i], fs[j], score)]

\* linkFindings on the findings at positions i and j of the array
linkFindings(fs, i, j, score) ==
    [fs EXCEPT ![i] = LinkTo(fs[i], fs[j], score),
               ![j] = LinkTo(fs[j], fs[i], score)]

\* the numbers of a finite set in increasing order
RECURSIVE SortedSeq(_)
SortedSeq(S) ==
    IF S = {} THEN <<>>
    ELSE LET m == CHOOSE x \in S : \A y \in S : x <= y
         IN  <<m>> \o SortedSeq(S \ {m})

\* a correlateFindingGroup that links pairs of one kind of scanner as well
CrossPairLinkedAnyType(f1, f2) ==
    LET score == calculateCorrelationScore(f1, f2)
    IN  score[1] * 10 > 7 * score[2]

\* does correlateFindingGroup link the two findings
CrossPairLinked(f1, f2) ==
    LET type1 == getScannerType(f1.scannerId)
        type2 == getScannerType(f2.scannerId)
        isDeterministic1 == type1 \in {"deterministic", "source", "ir"}
        isDeterministic2 == type2 \in {"deterministic", "source", "ir"}
        isAI1 == type1 \in {"llm", "hybrid"}
        isAI2 == type2 \in {"llm", "hybrid"}
        isDeterministicToAI == (isDeterministic1 /\ isAI2) \/ (isAI1 /\ isDeterministic2)
        score == calculateCorrelationScore(f1, f2)
    IN  isDeterministicToAI /\ score[1] * 10 > 7 * score[2]

\* the loops of correlateFindings and correlateFindingGroup over the pairs
\* <<i, j>> still to visit
RECURSIVE correlateFindingGroup(_, _)
correlateFindingGroup(fs, pairs) ==
    IF pairs = <<>> THEN fs
    ELSE LET i == pairs[1][1]
             j == pairs[1][2]
         IN  correlateFindingGroup(
                 IF CrossPairLinked(fs[i], fs[j])
                 THEN linkFindings(fs, i, j, calculateCorrelationScore(fs[i], fs[j]))
                 ELSE fs,
                 Tail(pairs))

\* groupByLocation: the pairs i < j of one location group, group by group in
\* the order of the groups' first members, then by i, then by j
groupByLocation(fs) ==
    LET n == Len(fs) + 1
        key(i) == <<fs[i].file, fs[i].line \div 10>>
        first(i) == CHOOSE g \in 1 .. i :
                       key(g) = key(i) /\ \A h \in 1 .. (g - 1) : key(h) # key(i)
        codes == {first(p[1]) * n * n + p[1] * n + p[2] :
                    p \in {q \in (1 .. Len(fs)) \X (1 .. Len(fs)) :
                             q[1] < q[2] /\ key(q[1]) = key(q[2])}}
        sorted == SortedSeq(codes)
    IN  [k \in 1 .. Len(sorted) |-> <<(sorted[k] \div n) % n, sorted[k] % n>>]

correlateFindings(fs) == correlateFindingGroup(fs, groupByLocation(fs))

areDuplicates(f1, f2) ==
    IF f1.file # f2.file \/ f1.line # f2.line
    THEN FALSE
    ELSE IF ~findingsAreSimilarType(f1, f2)
    THEN FALSE
    ELSE LET score == calculateCorrelationScore(f1, f2)
         IN  score[1] * 10 >= 8 * score[2]

\* descriptions.join(' | ')
RECURSIVE mergeDescriptions(_)
mergeDescriptions(fs) ==
    IF fs = <<>> THEN <<>> ELSE fs[1].description \o mergeDescriptions(Tail(fs))

\* the finding a group is merged into; with pick "first" the base is the first
\* member of the group, otherwise the first member of the highest severity
MergeGroupWith(pick, fs) ==
    LET sel(k) == SelectSeq(fs, LAMBDA f : SeverityIndex(f.severity) = k)
        sorted == IF pick = "first" THEN fs
                  ELSE sel(4) \o sel(3) \o sel(2) \o sel(1) \o sel(0) \o sel(-1)
        base == sorted[1]
        others == Tail(sorted)
        withData == SelectSeq(fs, LAMBDA f :
                        f.augmentedData # <<>> \/ f.metadataAugmentedData # <<>>)
        allAugmentedData == [k \in 1 .. Len(withData) |->
                                IF withData[k].augmentedData # <<>>
                                THEN withData[k].augmentedData[1]
                                ELSE withData[k].metadataAugmentedData[1]]
    IN  [base EXCEPT
           !.augmentedData = IF Len(allAugmentedData) > 0
                             THEN mergeAugmentedData(allAugmentedData) ELSE <<>>,
           !.title = base.title \o <<"Confirmed by", Len(fs)>>,
           !.description = mergeDescriptions(fs),
           !.correlationMetadata =
               <<CorrelationMetadata([k \in 1 .. Len(others) |-> others[k].id],
                                     "duplicate", <<>>, "full", <<3 * (Len(fs) - 1)>>)>>,
           !.mergedFrom = [k \in 1 .. Len(fs) |-> fs[k].id],
           !.scannerIds = [k \in 1 .. Len(fs) |-> fs[k].scannerId]]

\* a mergeFindingGroup that takes the first member as the representative
mergeFindingGroupFirst(fs) == MergeGroupWith("first", fs)

mergeFindingGroup(fs) == MergeGroupWith("severity", fs)

\* the for loop of mergeDuplicates from position k on
RECURSIVE MergeFrom(_, _, _, _)
MergeFrom(fs, k, merged, processed) ==
    IF k > Len(fs) THEN merged
    ELSE LET finding == fs[k]
             duplicates == SelectSeq(fs, LAMBDA f :
                               /\ f.id # finding.id
                               /\ f.id \notin processed
                               /\ areDuplicates(finding, f))
         IN  IF finding.id \in processed
             THEN MergeFrom(fs, k + 1, merged, processed)
             ELSE IF duplicates = <<>>
             THEN MergeFrom(fs, k + 1, Append(merged, finding), processed)
             ELSE MergeFrom(fs, k + 1,
                            Append(merged, mergeFindingGroup(<<finding>> \o duplicates)),
                            processed \cup {finding.id}
                               \cup {duplicates[d].id : d \in 1 .. Len(duplicates)})

\* a mergeDuplicates without the processed set: every finding is merged with
\* all its duplicates
mergeDuplicatesWithoutProcessed(fs) ==
    [k \in 1 .. Len(fs) |->
        LET duplicates == SelectSeq(fs, LAMBDA f :
                              f.id # fs[k].id /\ areDuplicates(fs[k], f))
        IN  IF duplicates = <<>> THEN fs[k]
            ELSE mergeFindingGroup(<<fs[k]>> \o duplicates)]

mergeDuplicates(fs) == MergeFrom(fs, 1, <<>>, {})

\* confidenceBoost of an augmentation, a fraction <<hundredths, 100>>
calculateConfidenceBoost(base, llm) ==
    LET boost == 20 + (IF base.severity = llm.severity THEN 10 ELSE 0)
                    + (IF llm.confidence = "high" THEN 15 ELSE 0)
    IN  <<IF boost < 50 THEN boost ELSE 50, 100>>

\* a meetsMinConfidence that asks for a confidence above the minimum
meetsMinConfidenceAbove(confidence) ==
    LET minConf == IF config.minAugmentationConfidence = "" THEN "medium"
                   ELSE config.minAugmentationConfidence
        confidenceOrder == [low |-> 1, medium |-> 2, high |-> 3]
    IN  confidenceOrder[confidence] > confidenceOrder[minConf]

meetsMinConfidence(confidence) ==
    LET minConf == IF config.minAugmentationConfidence = "" THEN "medium"
                   ELSE config.minAugmentationConfidence
        confidenceOrder == [low |-> 1, medium |-> 2, high |-> 3]
    IN  confidenceOrder[confidence] >= confidenceOrder[minConf]

\* a shouldUpgradeSeverity that does not compare the two severities
shouldUpgradeSeverityAnyOrder(base, llm) ==
    LET policy == IF config.severityUpgradePolicy = "" THEN "llm_high_conf_only"
                  ELSE config.severityUpgradePolicy
        isLLM == llm.scannerType = "llm" \/ getScannerType(llm.scannerId) = "llm"
    IN  CASE policy = "llm_high_conf_only" -> isLLM /\ llm.confidence = "high"
          [] policy = "any_llm" -> isLLM
          [] policy = "multi_scanner" ->
                 llm.correlationMetadata # <<>>
                    /\ Len(llm.correlationMetadata[1].relatedFindingIds) > 0
          [] OTHER -> FALSE

shouldUpgradeSeverity(base, llm) ==
    LET policy == IF config.severityUpgradePolicy = "" THEN "llm_high_conf_only"
                  ELSE config.severityUpgradePolicy
        baseIndex == SeverityIndex(base.severity)
        llmIndex == SeverityIndex(llm.severity)
        isLLM == llm.scannerType = "llm" \/ getScannerType(llm.scannerId) = "llm"
    IN  IF policy = "off" THEN FALSE
        ELSE IF llmIndex <= baseIndex THEN FALSE
        ELSE CASE policy = "llm_high_conf_only" -> isLLM /\ llm.confidence = "high"
               [] policy = "any_llm" -> isLLM
               [] policy = "multi_scanner" ->
                      llm.correlationMetadata # <<>>
                         /\ Len(llm.correlationMetadata[1].relatedFindingIds) > 0
               [] OTHER -> FALSE

\* an augmentFinding that records the id of its first argument
augmentFindingOwnId(baseFinding, llmFinding) ==
    LET old == IF baseFinding.correlationMetadata = <<>>
               THEN CorrelationMetadata(<<>>, "", <<>>, "", <<>>)
               ELSE baseFinding.correlationMetadata[1]
    IN  [baseFinding EXCEPT
           !.correlationMetadata = <<
              [old EXCEPT
                 !.relatedFindingIds = Append(old.relatedFindingIds, baseFinding.id),
                 !.correlationType = "augmentation",
                 !.confidenceBoost = calculateConfidenceBoost(baseFinding, llmFinding),
                 !.scannerAgreement = determineScannerAgreement(baseFinding, llmFinding)]>>,
           !.augmentedData =
               IF ~meetsMinConfidence(llmFinding.confidence) THEN <<>>
               ELSE IF llmFinding.metadataAugmentedData # <<>>
               THEN llmFinding.metadataAugmentedData
               ELSE llmFinding.augmentedData,
           !.augmentedAt = meetsMinConfidence(llmFinding.confidence),
           !.severity = IF shouldUpgradeSeverity(baseFinding, llmFinding)
                        THEN llmFinding.severity ELSE baseFinding.severity]

\* augmentFinding; augmentedAt is TRUE when the time is recorded
augmentFinding(baseFinding, llmFinding) ==
    LET old == IF baseFinding.correlationMetadata = <<>>
               THEN CorrelationMetadata(<<>>, "", <<>>, "", <<>>)
               ELSE baseFinding.correlationMetadata[1]
    IN  [baseFinding EXCEPT
           !.correlationMetadata = <<
              [old EXCEPT
                 !.relatedFindingIds = Append(old.relatedFindingIds, llmFinding.id),
                 !.correlationType = "augmentation",
                 !.confidenceBoost = calculateConfidenceBoost(baseFinding, llmFinding),
                 !.scannerAgreement = determineScannerAgreement(baseFinding, llmFinding)]>>,
           !.augmentedData =
               IF ~meetsMinConfidence(llmFinding.confidence) THEN <<>>
               ELSE IF llmFinding.metadataAugmentedData # <<>>
               THEN llmFinding.metadataAugmentedData
               ELSE llmFinding.augmentedData,
           !.augmentedAt = meetsMinConfidence(llmFinding.confidence),
           !.severity = IF shouldUpgradeSeverity(baseFinding, llmFinding)
                        THEN llmFinding.severity ELSE baseFinding.severity]

\* augmentFinding is called on two findings of the array; the finding it
\* returns takes the place of the base finding in the array that is returned
CallAugmentFinding(i, j) ==
    /\ svcArgs # <<>>
    /\ svcResult = <<>>
    /\ i \in 1 .. Len(svcArgs) /\ j \in 1 .. Len(svcArgs)
    /\ i # j
    /\ Cardinality({k \in 1 .. Len(svcArgs) :
                      svcArgs[k].correlationMetadata # <<>>
                         /\ svcArgs[k].correlationMetadata[1].correlationType
                               = "augmentation"}) < MaxAugmented
    /\ svcResult' = <<"augmentFinding",
                      [svcArgs EXCEPT ![i] = augmentFinding(svcArgs[i], svcArgs[j])],
                      i, j>>
    /\ lastLog' = <<"service", "", "augmentFinding">>
    /\ UNCHANGED <<docVars, trackerVars, detVars, timerVars, aiStateVars,
                   aiRunVars, lspClient, config, svcArgs, lifeVars, detailsVars, requests,
                   provVars, windowVars>>

\* correlateFindings is called: the objects of the array are changed in place
CallCorrelateFindings ==
    /\ svcArgs # <<>>
    /\ svcResult = <<>>
    /\ svcArgs' = correlateFindings(svcArgs)
    /\ svcResult' = <<"correlateFindings", correlateFindings(svcArgs)>>
    /\ lastLog' = <<"service", "", "correlateFindings">>
    /\ UNCHANGED <<docVars, trackerVars, detVars, timerVars, aiStateVars,
                   aiRunVars, lspClient, config, lifeVars, detailsVars, requests, provVars,
                   windowVars>>

\* mergeDuplicates is called: it returns new objects
CallMergeDuplicates ==
    /\ svcArgs # <<>>
    /\ svcResult = <<>>
    /\ svcResult' = <<"mergeDuplicates", mergeDuplicates(svcArgs)>>
    /\ lastLog' = <<"service", "", "mergeDuplicates">>
    /\ UNCHANGED <<docVars, trackerVars, detVars, timerVars, aiStateVars,
                   aiRunVars, lspClient, config, svcArgs, lifeVars, detailsVars, requests,
                   provVars, windowVars>>

\* the caller hands the returned array to its next call of the service
\* (FindingsProvider: mergeDuplicates(this.rawFindings) after correlateFindings)
PassResult ==
    /\ svcResult # <<>>
    /\ svcArgs' = svcResult[2]
    /\ svcResult' = <<>>
    /\ lastLog' = <<"service", "", "pass">>
    /\ UNCHANGED <<docVars, trackerVars, detVars, timerVars, aiStateVars,
                   aiRunVars, lspClient, config, lifeVars, detailsVars, requests, provVars,
                   windowVars>>

(***************************************************************************)
(* Initial states                                                          *)
(***************************************************************************)
AIFinding == Finding("ai1", "llm_scanner", "", "a.sol", 4, {}, "high")
AIFinding2 == Finding("ai2", "hybrid_reentrancy", "", "a.sol", 10, {11}, "medium")
DetFinding == Finding("det1", "source_reentrancy", "", "a.sol", 4, {}, "high")

DefaultConfig ==
    [onSave |-> "file", onSaveMode |-> "smart", smartRescan |-> "batch",
     contextLines |-> DefaultContextLines, minSeverity |-> "info",
     batchThreshold |-> DefaultBatchThreshold, idleEnabled |-> FALSE, idleMode |-> "off",
     minAugmentationConfidence |-> "medium",
     severityUpgradePolicy |-> "llm_high_conf_only"]

InitDocs ==
    /\ docText = [f \in Files |-> "T0"]
    /\ docVersion = [f \in Files |-> 1]
    /\ docOpen = [f \in Files |-> TRUE]

InitTracker ==
    /\ modifiedLines = EmptyMap
    /\ documentVersions = EmptyMap
    /\ contentHashes = EmptyMap
    /\ lineDeltas = EmptyMap

InitScheduler ==
    /\ lastScannedHash = EmptyMap
    /\ lastScannedTimestamp = EmptyMap
    /\ pendingScans = EmptyMap
    /\ epochByFile = EmptyMap
    /\ saveTimers = EmptyMap
    /\ scanCalls = {}
    /\ lastAIScanVersion = EmptyMap
    /\ lastAIScanHash = EmptyMap
    /\ lastAIScanTimestamp = EmptyMap
    /\ pendingAIRescans = <<>>
    /\ timers = EmptyMap
    /\ idleTimer = NoTimer
    /\ aiBatchTimer = NoTimer
    /\ listeners = {"save", "change", "selection", "diagnostics"}
    /\ cancelledTokens = {}
    /\ inflightAIScans = EmptyMap
    /\ aiRescanStats = [triggered |-> 0, deduplicated |-> 0, batched |-> 0, avoided |-> 0]
    /\ aiCalls = {}
    /\ requests = EmptyMap
    /\ window = EmptyMap
    /\ closedWindows = EmptyMap

\* no call of the correlation service is under way
(***************************************************************************)
(* FindingDetailsService                                                   *)
(***************************************************************************)
DetailIds == {"finding1", "finding2"}

\* what a tameshi/getFindingDetails request can come back with: a response
\* object, null, a rejection with code -32601, a rejection with another
\* Error, a rejection with a value that is no Error
ServerReplies == {"response", "null", "methodNotFound", "Error", "value"}

\* mapLSPResponseToExtendedFinding on the response the server gives for an id
mapLSPResponseToExtendedFinding(id) ==
    [id |-> id, rule |-> "test_scanner", severity |-> "high"]

\* error instanceof Error ? error : new Error(String(error))
AsError(error) ==
    IF error[1] = "Error" THEN error ELSE <<"Error", <<"String", error>>>>

CacheIndex(id) ==
    IF \E i \in 1 .. Len(cache) : cache[i].id = id
    THEN CHOOSE i \in 1 .. Len(cache) : cache[i].id = id
    ELSE 0

CacheWithout(id) == SelectSeq(cache, LAMBDA e : e.id # id)

\* getCached: a stale entry is dropped, a fresh one moves to the end
getCached(id) ==
    LET i == CacheIndex(id)
    IN  IF i = 0 THEN [hit |-> FALSE, cache |-> cache]
        ELSE IF ~cache[i].fresh THEN [hit |-> FALSE, cache |-> CacheWithout(id)]
        ELSE [hit |-> TRUE, finding |-> cache[i].finding,
              cache |-> Append(CacheWithout(id), cache[i])]

\* setCached: at maxCacheSize the first key goes; Map.set keeps the place of
\* a key that is present
setCached(c, id, finding) ==
    LET room == IF Len(c) >= maxCacheSize THEN Tail(c) ELSE c
        entry == [id |-> id, finding |-> finding, fresh |-> TRUE]
    IN  IF \E i \in 1 .. Len(room) : room[i].id = id
        THEN [i \in 1 .. Len(room) |-> IF room[i].id = id THEN entry ELSE room[i]]
        ELSE Append(room, entry)

Settle(m, callers, outcome) ==
    [n \in DOMAIN m \cup callers |-> IF n \in callers THEN outcome ELSE m[n]]

SeqRange(q) == {q[i] : i \in 1 .. Len(q)}

\* fetchDetails up to its first await, for the caller numbered n
FetchDetails(id) ==
    LET n == Cardinality(DOMAIN callerAsked) + 1
        got == getCached(id)
    IN  /\ n <= MaxCalls
        /\ callerAsked' = MapSet(callerAsked, n, id)
        /\ cache' = got.cache
        /\ IF got.hit
           THEN /\ settled' = Settle(settled, {n}, <<"finding", got.finding>>)
                /\ UNCHANGED <<pendingRequests, detailCalls, detailRequests>>
           ELSE IF Has(pendingRequests, id)
           THEN /\ pendingRequests' = MapSet(pendingRequests, id,
                                             Append(pendingRequests[id], n))
                /\ UNCHANGED <<settled, detailCalls, detailRequests>>
           ELSE /\ pendingRequests' = MapSet(pendingRequests, id, <<>>)
                /\ detailCalls' = detailCalls \cup
                      {[caller |-> n, id |-> id,
                        pc |-> IF ~detailsClient THEN "noClient"
                               ELSE IF ~serverSupportsDetails THEN "unsupported"
                               ELSE "request"]}
                /\ detailRequests' =
                      IF detailsClient /\ serverSupportsDetails
                      THEN MapSet(detailRequests, id,
                                  (IF Has(detailRequests, id) THEN detailRequests[id] ELSE 0) + 1)
                      ELSE detailRequests
                /\ UNCHANGED settled
        /\ lastLog' = <<"fetchDetails", id, "">>
        /\ UNCHANGED <<serverSupportsDetails, detailsClient>>
        /\ UNCHANGED <<docVars, trackerVars, detVars, timerVars, aiStateVars, aiRunVars,
                       lspClient, config, svcVars, lifeVars, requests, provVars,
                       windowVars>>

\* fetchDetails after the await: fetchFromServer returned finding (or null)
DetailsResolved(c, finding, supported) ==
    /\ cache' = IF finding # <<"null">> THEN setCached(cache, c.id, finding[2]) ELSE cache
    /\ settled' = Settle(settled, SeqRange(pendingRequests[c.id]) \cup {c.caller}, finding)
    /\ pendingRequests' = MapDel(pendingRequests, c.id)
    /\ serverSupportsDetails' = supported
    /\ detailCalls' = detailCalls \ {c}
    /\ UNCHANGED <<detailsClient, callerAsked, detailRequests>>

\* fetchDetails after the await: fetchFromServer threw error
DetailsRejected(c, error) ==
    /\ settled' = Settle(Settle(settled, SeqRange(pendingRequests[c.id]), AsError(error)),
                         {c.caller}, error)
    /\ pendingRequests' = MapDel(pendingRequests, c.id)
    /\ detailCalls' = detailCalls \ {c}
    /\ UNCHANGED <<cache, serverSupportsDetails, detailsClient, callerAsked,
                   detailRequests>>

\* the server answers the request of call c
DetailsRequestReturns(c, reply) ==
    /\ c.pc = "request"
    /\ CASE reply = "response" ->
               DetailsResolved(c, <<"finding", mapLSPResponseToExtendedFinding(c.id)>>,
                               serverSupportsDetails)
          [] reply = "null" -> DetailsResolved(c, <<"null">>, serverSupportsDetails)
          [] reply = "methodNotFound" -> DetailsResolved(c, <<"null">>, FALSE)
          [] reply = "Error" -> DetailsRejected(c, <<"Error", "request failed">>)
          [] reply = "value" -> DetailsRejected(c, <<"value", "timeout">>)
    /\ lastLog' = <<"details", c.id, reply>>
    /\ UNCHANGED <<docVars, trackerVars, detVars, timerVars, aiStateVars, aiRunVars,
                   lspClient, config, svcVars, lifeVars, requests, provVars,
                   windowVars>>

\* fetchFromServer sent nothing: no client (throws) or no server support (null)
DetailsWithoutRequest(c) ==
    /\ c.pc # "request"
    /\ IF c.pc = "noClient"
       THEN DetailsRejected(c, <<"Error", "LSP client not available">>)
       ELSE DetailsResolved(c, <<"null">>, serverSupportsDetails)
    /\ lastLog' = <<"details", c.id, c.pc>>
    /\ UNCHANGED <<docVars, trackerVars, detVars, timerVars, aiStateVars, aiRunVars,
                   lspClient, config, svcVars, lifeVars, requests, provVars,
                   windowVars>>

\* invalidateCache(findingId) and, for all = TRUE, invalidateCache()
InvalidateCache(id, all) ==
    /\ cache # <<>>
    /\ cache' = IF all THEN <<>> ELSE CacheWithout(id)
    /\ lastLog' = <<"invalidateCache", id, "">>
    /\ UNCHANGED <<pendingRequests, serverSupportsDetails, detailsClient, detailCalls,
                   callerAsked, settled, detailRequests>>
    /\ UNCHANGED <<docVars, trackerVars, detVars, timerVars, aiStateVars, aiRunVars,
                   lspClient, config, svcVars, lifeVars, requests, provVars,
                   windowVars>>

\* Date.now() passes timestamp + cacheTTL for the entries now in the cache
CacheTTLPasses ==
    /\ \E i \in 1 .. Len(cache) : cache[i].fresh
    /\ cache' = [i \in 1 .. Len(cache) |-> [cache[i] EXCEPT !.fresh = FALSE]]
    /\ lastLog' = <<"ttl", "", "">>
    /\ UNCHANGED <<pendingRequests, serverSupportsDetails, detailsClient, detailCalls,
                   callerAsked, settled, detailRequests>>
    /\ UNCHANGED <<docVars, trackerVars, detVars, timerVars, aiStateVars, aiRunVars,
                   lspClient, config, svcVars, lifeVars, requests, provVars,
                   windowVars>>

\* setLSPClient(client)
SetLSPClient(client) ==
    /\ detailsClient # client
    /\ detailsClient' = client
    /\ lastLog' = <<"setLSPClient", "", "">>
    /\ UNCHANGED <<cache, pendingRequests, serverSupportsDetails, detailCalls,
                   callerAsked, settled, detailRequests>>
    /\ UNCHANGED <<docVars, trackerVars, detVars, timerVars, aiStateVars, aiRunVars,
                   lspClient, config, svcVars, lifeVars, requests, provVars,
                   windowVars>>

InitDetailsService ==
    /\ cache = <<>>
    /\ pendingRequests = EmptyMap
    /\ serverSupportsDetails = TRUE
    /\ detailsClient = FALSE
    /\ detailCalls = {}
    /\ callerAsked = EmptyMap
    /\ settled = EmptyMap
    /\ detailRequests = EmptyMap

InitService ==
    /\ svcArgs = <<>>
    /\ svcResult = <<>>
    /\ InitDetailsService

InitProvider ==
    /\ findings = {}
    /\ lastAppliedScanEpoch = 0
    /\ loads = EmptyMap
    /\ appliedEpochs = {}
    /\ shownEpoch = 0

(***************************************************************************)
(* SpecEpoch: findingsUpdated notifications and epoch-gated reloads        *)
(***************************************************************************)
ScanTypes == {"deterministic", "ai", "hybrid", "undefined"}
Responses ==
    {[hasFindings |-> FALSE, findings |-> {}],
     [hasFindings |-> TRUE, findings |-> {}],
     [hasFindings |-> TRUE, findings |-> {AIFinding, DetFinding}]}

InitEpoch ==
    /\ InitDocs /\ InitTracker /\ InitScheduler /\ InitProvider /\ InitService
    /\ lspClient = TRUE
    /\ config = DefaultConfig
    /\ lastLog = <<"init", 0, "">>

NextEpoch ==
    \/ \E files \in SUBSET Files, e \in 0 .. MaxEpoch, t \in ScanTypes :
          HandleFindingsUpdated(files, <<e>>, t)
    \/ \E files \in SUBSET Files, t \in ScanTypes :
          HandleFindingsUpdated(files, <<>>, t)
    \/ \E id \in DOMAIN loads : LoadResume(id)
    \/ \E id \in DOMAIN loads, r \in Responses : GetFindingsResponse(id, r)
    \/ \E id \in DOMAIN loads : GetFindingsError(id)
    \/ ClientChange

SpecEpoch == InitEpoch /\ [][NextEpoch]_vars

(***************************************************************************)
(* SpecSave: the deterministic on-save pipeline                            *)
(***************************************************************************)
InitSave ==
    /\ InitDocs /\ InitTracker /\ InitScheduler /\ InitProvider /\ InitService
    /\ lspClient = TRUE
    /\ config \in {[DefaultConfig EXCEPT !.onSaveMode = "deterministic", !.onSave = s] :
                     s \in {"file", "workspace"}}
    /\ lastLog = <<"init", "", "">>

NextSave ==
    \/ \E f \in Files, text \in Contents : DidChangeTextDocument(f, text, <<Change(0, 0, 0)>>)
    \/ \E f \in Files : HandleSave(f)
    \/ \E t \in PendingTimers("save") : SaveTimerFires(t)
    \/ \E c \in scanCalls : ScanCallResumes(c)
    \/ \E c \in scanCalls : ScanRequestOk(c)
    \/ \E c \in scanCalls : ScanRequestFails(c)
    \/ \E f \in Files : DidChangeDiagnostics(f)
    \/ \E f \in Files : CloseDocument(f)
    \/ \E f \in Files, text \in Contents : OpenDocument(f, text)
    \/ ClientChange

SpecSave == InitSave /\ [][NextSave]_vars

(***************************************************************************)
(* SpecHash: deterministic saves with findingsUpdated notifications        *)
(***************************************************************************)
InitHash ==
    /\ InitDocs /\ InitTracker /\ InitScheduler /\ InitProvider /\ InitService
    /\ lspClient = TRUE
    /\ config = [DefaultConfig EXCEPT !.onSaveMode = "deterministic"]
    /\ lastLog = <<"init", "", "">>

NextHash ==
    \/ \E f \in Files, text \in Contents, line \in {0, 1} :
          DidChangeTextDocument(f, text, <<Change(line, line, 0)>>)
    \/ \E f \in Files : HandleSave(f)
    \/ \E t \in PendingTimers("save") : SaveTimerFires(t)
    \/ \E c \in scanCalls : ScanCallResumes(c)
    \/ \E c \in scanCalls : ScanRequestOk(c)
    \/ \E f \in Files : DidChangeDiagnostics(f)
    \/ \E files \in SUBSET Files, t \in ScanTypes :
          HandleFindingsUpdated(files, <<>>, t)

SpecHash == InitHash /\ [][NextHash]_vars

(***************************************************************************)
(* SpecSmart: saves of a file that has AI findings, smart mode             *)
(***************************************************************************)
\* edits of line 1 and line 7 (outside [2,6] and [8,13]) and of line 6 (inside)
SmartEdits ==
    {<<Change(0, 0, 0)>>, <<Change(5, 5, 0)>>, <<Change(6, 6, 1)>>, <<Change(9, 9, 3)>>}

\* findings of epoch 1 are shown
InitSmart ==
    /\ InitDocs /\ InitTracker /\ InitScheduler /\ InitService
    /\ findings = {AIFinding, AIFinding2, DetFinding}
    /\ lastAppliedScanEpoch = 1
    /\ loads = EmptyMap
    /\ appliedEpochs = {1}
    /\ shownEpoch = 1
    /\ lspClient = TRUE
    /\ config \in {[DefaultConfig EXCEPT !.smartRescan = m] : m \in {"file", "batch"}}
    /\ lastLog = <<"init", "", "">>

NextSmart ==
    \/ \E f \in Files, text \in Contents, changes \in SmartEdits :
          DidChangeTextDocument(f, text, changes)
    \/ \E f \in Files : HandleSave(f)
    \/ \E c \in aiCalls : AIFileScanOk(c)
    \/ \E c \in aiCalls : AIFileScanFails(c)
    \/ \E t \in PendingTimers("batch") : BatchTimerFires(t)
    \/ \E files \in SUBSET Files, t \in ScanTypes :
          HandleFindingsUpdated(files, <<>>, t)

SpecSmart == InitSmart /\ [][NextSmart]_vars

(***************************************************************************)
(* SpecTimers: save, batch and idle timers together                        *)
(***************************************************************************)
\* idle scans are enabled; the file has no findings yet, or those of a first scan
InitTimers ==
    /\ InitDocs /\ InitTracker /\ InitScheduler /\ InitService
    /\ \/ InitProvider
       \/ /\ findings = {AIFinding, DetFinding}
          /\ lastAppliedScanEpoch = 1
          /\ loads = EmptyMap
          /\ appliedEpochs = {1}
          /\ shownEpoch = 1
    /\ lspClient = TRUE
    /\ config \in {[DefaultConfig EXCEPT !.idleEnabled = TRUE, !.idleMode = m] :
                     m \in {"workspace", "ai-workspace"}}
    /\ lastLog = <<"init", "", "">>

NextTimers ==
    \/ \E f \in Files, text \in Contents :
          DidChangeTextDocument(f, text, <<Change(5, 5, 0)>>)
    \/ \E f \in Files : HandleSave(f)
    \/ \E t \in PendingTimers("save") : SaveTimerFires(t)
    \/ \E c \in scanCalls : ScanCallResumes(c)
    \/ \E c \in scanCalls : ScanRequestOk(c)
    \/ \E t \in PendingTimers("batch") : BatchTimerFires(t)
    \/ \E t \in PendingTimers("idle") : IdleTimerFires(t)
    \/ \E c \in aiCalls : AIFileScanOk(c)
    \/ \E c \in aiCalls : AIWorkspaceScanOk(c)
    \/ \E c \in aiCalls : AIWorkspaceScanFails(c)
    \/ DidChangeTextEditorSelection
    \/ Dispose

SpecTimers == InitTimers /\ [][NextTimers]_vars

(***************************************************************************)
(* SpecModes: saves under every on-save mode                               *)
(***************************************************************************)
OnSaveModes == {"off", "smart", "ai", "deterministic"}

\* the file has no findings yet, or those of a first scan
InitModes ==
    /\ InitDocs /\ InitTracker /\ InitScheduler /\ InitService
    /\ \/ InitProvider
       \/ /\ findings = {AIFinding, DetFinding}
          /\ lastAppliedScanEpoch = 1
          /\ loads = EmptyMap
          /\ appliedEpochs = {1}
          /\ shownEpoch = 1
    /\ lspClient = TRUE
    /\ config \in {[DefaultConfig EXCEPT !.onSaveMode = m, !.smartRescan = r, !.onSave = s] :
                     m \in OnSaveModes, r \in {"off", "file"}, s \in {"file", "none"}}
    /\ lastLog = <<"init", "", "">>

NextModes ==
    \/ \E f \in Files, text \in Contents, changes \in {<<Change(0, 0, 0)>>, <<Change(5, 5, 0)>>} :
          DidChangeTextDocument(f, text, changes)
    \/ \E f \in Files : HandleSave(f)
    \/ \E t \in PendingTimers("save") : SaveTimerFires(t)
    \/ \E c \in scanCalls : ScanCallResumes(c)
    \/ \E c \in scanCalls : ScanRequestOk(c)
    \/ \E c \in aiCalls : AIFileScanOk(c)
    \/ \E c \in aiCalls : AIFileScanFails(c)
    \/ ClientChange

SpecModes == InitModes /\ [][NextModes]_vars

(***************************************************************************)
(* SpecBatch: two files with AI findings, batch mode                       *)
(***************************************************************************)
BatchFiles == {"a.sol", "b.sol"}
AIFindingB == Finding("ai3", "llm_scanner", "", "b.sol", 4, {}, "high")

\* the batch threshold is the default, or two files
InitBatch ==
    /\ docText = [f \in BatchFiles |-> "T0"]
    /\ docVersion = [f \in BatchFiles |-> 1]
    /\ docOpen = [f \in BatchFiles |-> TRUE]
    /\ InitTracker /\ InitScheduler /\ InitService
    /\ findings = {AIFinding, AIFindingB, DetFinding}
    /\ lastAppliedScanEpoch = 1
    /\ loads = EmptyMap
    /\ appliedEpochs = {1}
    /\ shownEpoch = 1
    /\ lspClient = TRUE
    /\ config \in {[DefaultConfig EXCEPT !.batchThreshold = n] :
                     n \in {2, DefaultBatchThreshold}}
    /\ lastLog = <<"init", "", "">>

NextBatch ==
    \/ \E f \in BatchFiles : DidChangeTextDocument(f, "T1", <<Change(5, 5, 0)>>)
    \/ \E f \in BatchFiles : HandleSave(f)
    \/ \E t \in PendingTimers("batch") : BatchTimerFires(t)
    \/ \E c \in aiCalls : AIFileScanOk(c)
    \/ \E c \in aiCalls : AIFileScanFails(c)
    \/ \E c \in aiCalls : AIWorkspaceScanOk(c)
    \/ \E c \in aiCalls : AIWorkspaceScanFails(c)

SpecBatch == InitBatch /\ [][NextBatch]_vars

(***************************************************************************)
(* SpecUpdate: findingsUpdated notifications for two files, one of which   *)
(* may have no open document                                               *)
(***************************************************************************)
InitUpdate ==
    /\ docText = [f \in BatchFiles |-> "T0"]
    /\ docVersion = [f \in BatchFiles |-> 1]
    /\ docOpen \in {[f \in BatchFiles |-> TRUE], [f \in BatchFiles |-> f = "a.sol"]}
    /\ InitTracker /\ InitScheduler /\ InitProvider /\ InitService
    /\ lspClient = TRUE
    /\ config = DefaultConfig
    /\ lastLog = <<"init", "", "">>

NextUpdate ==
    \/ \E f \in BatchFiles, text \in Contents :
          DidChangeTextDocument(f, text, <<Change(6, 6, 1)>>)
    \/ \E files \in SUBSET BatchFiles, t \in ScanTypes :
          HandleFindingsUpdated(files, <<>>, t)

SpecUpdate == InitUpdate /\ [][NextUpdate]_vars

(***************************************************************************)
(* SpecRename: two paths that are edited, scanned, renamed and deleted     *)
(***************************************************************************)
\* edits of line 6 without and with an inserted line
RenameEdits == {<<Change(5, 5, 0)>>, <<Change(6, 6, 1)>>}

InitRename ==
    /\ docText = [f \in BatchFiles |-> "T0"]
    /\ docVersion = [f \in BatchFiles |-> 1]
    /\ docOpen \in {[f \in BatchFiles |-> TRUE], [f \in BatchFiles |-> f = "a.sol"]}
    /\ InitTracker /\ InitScheduler /\ InitProvider /\ InitService
    /\ lspClient = TRUE
    /\ config = DefaultConfig
    /\ lastLog = <<"init", "", "">>

NextRename ==
    \/ \E f \in BatchFiles, changes \in RenameEdits :
          /\ applyLineShift(f, MaxLine) < MaxLine + MaxInsert
          /\ DidChangeTextDocument(f, "T1", changes)
    \/ \E f \in BatchFiles : HandleFindingsUpdated({f}, <<>>, "hybrid")
    \/ \E oldPath, newPath \in BatchFiles : DidRenameFiles(oldPath, newPath)
    \/ \E f \in BatchFiles : DidDeleteFiles(f)
    \/ \E f \in BatchFiles : OpenDocument(f, "T0")

SpecRename == InitRename /\ [][NextRename]_vars

(***************************************************************************)
(* SpecShift: a document whose lines are followed through several edits    *)
(***************************************************************************)
\* The text of the document is the sequence of its lines; a line is named by
\* the number it had when tracking was last cleared, and a line an edit wrote
\* is named 0.

\* the text after one content change: the lines startLine .. endLine (0-based)
\* are replaced by the addedLines + 1 lines of the inserted text
ApplyChange(text, change) ==
    SubSeq(text, 1, change.startLine)
      \o [i \in 1 .. change.addedLines + 1 |-> 0]
      \o SubSeq(text, change.endLine + 2, Len(text))

\* plain edits, insertions and deletions at three positions of the document
ShiftEdits ==
    {Change(startLine, endLine, addedLines) :
        startLine \in {1, 4, 7}, endLine \in {1, 2, 4, 5, 7, 8},
        addedLines \in {0, 1, MaxInsert}}

InitShift ==
    /\ docText = [f \in Files |-> [i \in 1 .. MaxLine |-> i]]
    /\ docVersion = [f \in Files |-> 1]
    /\ docOpen = [f \in Files |-> TRUE]
    /\ InitTracker /\ InitScheduler /\ InitProvider /\ InitService
    /\ lspClient = TRUE
    /\ config = DefaultConfig
    /\ lastLog = <<"init", "", "">>

NextShift ==
    \E f \in Files, change \in ShiftEdits :
        /\ change.endLine \in {change.startLine, change.startLine + 1}
        /\ change.endLine < Len(docText[f])
        /\ DidChangeTextDocument(f, ApplyChange(docText[f], change), <<change>>)

SpecShift == InitShift /\ [][NextShift]_vars

(***************************************************************************)
(* SpecDetails: callers of FindingDetailsService.fetchDetails              *)
(***************************************************************************)
InitDetails ==
    /\ InitDocs /\ InitTracker /\ InitScheduler /\ InitProvider /\ InitService
    /\ lspClient = TRUE
    /\ config = DefaultConfig
    /\ lastLog = <<"init", "", "">>

NextDetails ==
    \/ \E id \in DetailIds : FetchDetails(id)
    \/ \E c \in detailCalls, reply \in ServerReplies : DetailsRequestReturns(c, reply)
    \/ \E c \in detailCalls : DetailsWithoutRequest(c)
    \/ \E id \in DetailIds, all \in BOOLEAN : InvalidateCache(id, all)
    \/ CacheTTLPasses
    \/ \E client \in BOOLEAN : SetLSPClient(client)

SpecDetails == InitDetails /\ [][NextDetails]_vars

(***************************************************************************)
(* SpecCorr: calls of the FindingCorrelationService                        *)
(***************************************************************************)
\* the findings the server may report under an id
Shapes(id) ==
    LET at(scannerId, line, endLine, severity) ==
            Finding(id, scannerId, "", "a.sol", line, endLine, severity)
    IN  <<ExtendedFinding(at("source_reentrancy", 15, {}, "high"),
                          <<"source_", "reentrancy">>, "reentrancy", "Reentrancy", "", <<>>),
          ExtendedFinding(at("cranelift_reentrancy", 15, {}, "critical"),
                          <<"cranelift_", "unchecked">>, "reentrancy", "Reentrancy in call",
                          "", <<>>),
          ExtendedFinding(at("llm_scanner", 15, {}, "high"),
                          <<"", "unchecked">>, "", "Unchecked call", "", <<>>),
          ExtendedFinding(at("llm_scanner", 15, {}, "high"),
                          <<"", "reentrancy">>, "reentrancy", "Reentrancy", "f1", <<>>),
          ExtendedFinding(at("slither", 15, {}, "low"),
                          <<"", "reentrancy">>, "reentrancy", "Reentrant call", "", <<>>),
          ExtendedFinding(at("source_reentrancy", 11, {17}, "medium"),
                          <<"hybrid_", "unchecked">>, "", "Unchecked call", "", <<>>),
          ExtendedFinding(at("llm_scanner", 15, {12}, "high"),
                          <<"source_", "reentrancy">>, "reentrancy", "Note", "", <<>>),
          ExtendedFinding(at("slither", 15, {}, "medium"),
                          <<"cranelift_", "">>, "", "Untyped", "", <<>>),
          ExtendedFinding(at("llm_scanner", 15, {17}, "info"),
                          <<"", "reentrancy">>, "reentrancy", "Reentrancy", "",
                          <<CorrelationMetadata(<<"f1">>, "related", <<>>, "", <<>>)>>),
          ExtendedFinding(at("llm_scanner", 9, {15}, "medium"),
                          <<"", "unchecked">>, "", "Unchecked call", "", <<>>),
          ExtendedFinding(at("hybrid_reentrancy", 15, {}, "high"),
                          <<"hybrid_", "reentrancy">>, "reentrancy", "Reentrancy", "", <<>>),
          ExtendedFinding(Finding(id, "custom", "llm", "a.sol", 15, {}, "critical"),
                          <<"", "overflow">>, "overflow", "Overflow", "", <<>>),
          ExtendedFinding(at("slither", 15, {}, "informational"),
                          <<"", "overflow">>, "overflow", "Overflow", "", <<>>)>>

\* the confidence the server reports with each of the shapes
ShapeConfidence ==
    <<"high", "medium", "high", "medium", "low", "medium", "low", "high", "low",
      "high", "medium", "high", "medium">>

\* the augmented data the server reports with each of the shapes, as the
\* field augmentedData and as metadata.augmented_data
ShapeAugmentedData ==
    <<<<<<>>, <<>>>>, <<<<>>, <<>>>>,
      <<AugmentedData("context 3", <<95>>), <<>>>>,
      <<<<>>, AugmentedData("context 4", <<40>>)>>,
      <<<<>>, <<>>>>, <<<<>>, <<>>>>, <<<<>>, <<>>>>, <<<<>>, <<>>>>,
      <<AugmentedData("context 9", <<>>), AugmentedData("", <<70>>)>>,
      <<<<>>, <<>>>>,
      <<AugmentedData("context 11", <<60>>), <<>>>>,
      <<<<>>, <<>>>>, <<<<>>, <<>>>>>>

\* the values of the setting tameshi.findings.severityUpgradePolicy
SeverityUpgradePolicies == {"off", "llm_high_conf_only", "any_llm", "multi_scanner"}

\* the arrays of n findings of the given shapes, with the ids f1, f2, ...
FindingArraysOf(n, shapes) ==
    LET FindingIds == <<"f1", "f2", "f3", "f4">>
    IN  {[k \in 1 .. n |-> [Shapes(FindingIds[k])[c[k]]
                               EXCEPT !.confidence = ShapeConfidence[c[k]],
                                      !.augmentedData = ShapeAugmentedData[c[k]][1],
                                      !.metadataAugmentedData =
                                          ShapeAugmentedData[c[k]][2]]] :
            c \in [1 .. n -> shapes]}

\* the arrays of n findings, with the ids f1, f2, ...
FindingArrays(n) == FindingArraysOf(n, 1 .. Len(ShapeConfidence))

InitCorr ==
    /\ InitDocs /\ InitTracker /\ InitScheduler /\ InitProvider
    /\ lspClient = TRUE
    /\ config = DefaultConfig
    /\ \E n \in 1 .. MaxFindings : svcArgs \in FindingArrays(n)
    /\ svcResult = <<>>
    /\ InitDetailsService
    /\ lastLog = <<"init", "", "">>

NextCorr ==
    \/ CallCorrelateFindings
    \/ CallMergeDuplicates
    \/ PassResult

SpecCorr == InitCorr /\ [][NextCorr]_vars

(***************************************************************************)
(* SpecAugment: the service with augmentFinding, under every policy        *)
(***************************************************************************)
\* the shapes of the findings that are augmented: source and slither
\* findings, an llm finding that is related already, a hybrid finding, a
\* finding of explicit type llm and a finding of severity 'informational'
AugmentShapes == {s \in 1 .. Len(ShapeConfidence) :
                    \/ Shapes("")[s].scannerId \in {"hybrid_reentrancy", "custom"}
                    \/ Shapes("")[s].correlationMetadata # <<>>
                    \/ Shapes("")[s].severity \in {"low", "informational"}
                    \/ Shapes("")[s].scannerId = "source_reentrancy"
                          /\ Shapes("")[s].severity = "high"}

InitAugment ==
    /\ InitDocs /\ InitTracker /\ InitScheduler /\ InitProvider
    /\ lspClient = TRUE
    /\ config \in {[DefaultConfig EXCEPT !.severityUpgradePolicy = p,
                                          !.minAugmentationConfidence = m] :
                      p \in SeverityUpgradePolicies, m \in {"low", "medium", "high"}}
    /\ \E n \in 1 .. MaxFindings : svcArgs \in FindingArraysOf(n, AugmentShapes)
    /\ svcResult = <<>>
    /\ InitDetailsService
    /\ lastLog = <<"init", "", "">>

NextAugment ==
    \/ CallCorrelateFindings
    \/ CallMergeDuplicates
    \/ \E i, j \in 1 .. MaxFindings : CallAugmentFinding(i, j)
    \/ PassResult

SpecAugment == InitAugment /\ [][NextAugment]_vars

(***************************************************************************)
(* Claims on the deterministic on-save pipeline (SpecSave)                 *)
(***************************************************************************)
DetCommands == {"scanFile", "scanWorkspace"}

\* the deterministic scan requests sent for f by the attempts of epochs lo..hi
DetRequests(f, lo, hi) ==
    {r \in DOMAIN requests : r.cmd \in DetCommands /\ r.file = f /\ r.epoch \in lo .. hi}

RECURSIVE CountOf(_)
CountOf(S) ==
    IF S = {} THEN 0
    ELSE LET r == CHOOSE x \in S : TRUE IN requests[r] + CountOf(S \ {r})

\* the requests sent for the debounce window of f that ended last
WindowRequests(f) ==
    DetRequests(f, closedWindows[f].base + 1,
                closedWindows[f].base + closedWindows[f].saves)

C5_EpochOnceBeyondBaseline ==
    \A f \in Files :
        (Has(window, f) /\ window[f].saves = 2) => EpochOf(f) = window[f].base + 1

\* C5 amended: the epoch counter of a file rises by one with every scheduling
\* save, so after two saves in one debounce window it is exactly two above its
\* value before the first save; the pending entry carries that last epoch.
C5_EpochOncePerSave ==
    \A f \in Files :
        Has(window, f) =>
            /\ EpochOf(f) = window[f].base + window[f].saves
            /\ Has(pendingScans, f) =>
                  pendingScans[f].epoch <= window[f].base + window[f].saves

\* two saves are in the open debounce window
C5_Witness ==
    \E f \in Files :
        /\ Has(window, f) /\ window[f].saves = 2
        /\ EpochOf(f) = window[f].base + 2

C9_DiagnosticsFreshness ==
    [][lastLog'[1] = "diagnostics" =>
         LET f == lastLog'[2]
         IN  IF Has(pendingScans, f) /\ docOpen[f]
             THEN IF hashContent(docText[f]) = pendingScans[f].hash
                  THEN /\ Has(lastScannedHash', f)
                       /\ lastScannedHash'[f] = pendingScans[f].hash
                       /\ ~Has(pendingScans', f)
                  ELSE UNCHANGED <<lastScannedHash, pendingScans>>
             ELSE UNCHANGED <<detVars, timerVars, aiStateVars, aiRunVars>>]_vars

\* stale diagnostics have been ignored after an earlier scan was committed
C9_Witness ==
    \E f \in Files :
        /\ lastLog = <<"diagnostics", f, "stale">>
        /\ Has(lastScannedHash, f) /\ Has(pendingScans, f)
        /\ lastScannedHash[f] # pendingScans[f].hash

\* C35: when a save attempt is abandoned after its hash check or its request
\* fails while the pending scan of the file is that of a later save, the
\* pending scan of the later save stays recorded.
C35_OlderAttemptKeepsLaterPending ==
    [][\A c \in scanCalls :
          (/\ c \notin scanCalls'
           /\ lastLog' \in {<<"scan", c.file, "cancelled">>, <<"scan", c.file, "failed">>}
           /\ Has(pendingScans, c.file)
           /\ pendingScans[c.file].epoch > c.epoch)
            => /\ Has(pendingScans', c.file)
               /\ pendingScans'[c.file] = pendingScans[c.file]]_vars

(***************************************************************************)
(* Claims on content hashes (SpecHash)                                     *)
(***************************************************************************)
\* h is a hash of content, by either algorithm the code uses
IsHashOf(h, content) == h \in {hashContent(content), sha256(content)}

\* C6: a save of a file whose content is the content whose hash was recorded
\* as last scanned schedules nothing and sends no scan request.
C6_UnchangedSaveSendsNothing ==
    [][(/\ lastLog'[1] = "save"
        /\ Has(lastScannedHash, lastLog'[2])
        /\ IsHashOf(lastScannedHash[lastLog'[2]], docText[lastLog'[2]]))
         => UNCHANGED <<timers, pendingScans, requests>>]_vars

\* C7: every call of getContentHash for an open document returns (and leaves
\* cached) the hash of the document's current text, whatever changes and calls
\* came before.
C7_HashOfCurrentText ==
    [][lastLog'[1] = "findingsUpdated" =>
         \A f \in lastLog'[4] :
            docOpen[f] => /\ Has(contentHashes', f)
                          /\ contentHashes'[f] = sha256(docText[f])]_vars

\* C34: when updateAIScanState has just recorded, for an open document, the
\* hash of its content as last scanned, a save of the document with that
\* content is skipped: it takes no epoch, sets no timer, records no pending
\* scan and sends no request.
C34_RecordedHashSkipsSave ==
    [][\A f \in Files :
          (/\ lastLog[1] = "findingsUpdated" /\ f \in lastLog[4]
           /\ lastLog'[1] = "save" /\ lastLog'[2] = f
           /\ docOpen[f]
           /\ Has(lastScannedHash, f)
           /\ lastScannedHash[f] = sha256(docText[f]))
            => UNCHANGED <<timers, saveTimers, pendingScans, epochByFile, requests>>]_vars

(***************************************************************************)
(* Claims on the smart AI rescan (SpecSmart)                               *)
(***************************************************************************)
\* the lines of [start-2, end+2] of every AI finding of f
AIWindows(f) ==
    UNION {(x.line - DefaultContextLines) .. (EndLineOf(x) + DefaultContextLines) :
              x \in filterAIFindings(findings, f)}

\* C10: when a file with AI findings is saved and every line modified since
\* the tracker was last cleared lies outside [start-2, end+2] of every AI
\* finding of the file, the save counts one avoided rescan, counts no
\* triggered rescan, sends no request and schedules no batch rescan.
C10_EditOutsideWindowsAvoided ==
    [][(/\ lastLog'[1] = "save"
        /\ SavePath(lastLog'[2]) = "smart"
        /\ GetModifiedLines(lastLog'[2]) # {}
        /\ GetModifiedLines(lastLog'[2]) \cap AIWindows(lastLog'[2]) = {})
         => /\ aiRescanStats'.avoided = aiRescanStats.avoided + 1
            /\ aiRescanStats'.triggered = aiRescanStats.triggered
            /\ UNCHANGED <<requests, aiCalls, inflightAIScans, pendingAIRescans,
                           timers>>]_vars

\* a save after edits of lines 1 and 7 only has been counted as avoided
C10_Witness ==
    \E f \in Files :
        /\ lastLog = <<"save", f, "avoided.unaffected">>
        /\ GetModifiedLines(f) = {1, 7}
        /\ aiRescanStats.avoided >= 1

(***************************************************************************)
(* Claims on AI scans in flight and on timers (SpecSmart, SpecTimers)      *)
(***************************************************************************)
\* the llmScanFile requests sent for f so far, as recorded in reqs
LlmFileCount(reqs, f) ==
    LET r == Request("llmScanFile", f, 0, NoHash)
    IN  IF Has(reqs, r) THEN reqs[r] ELSE 0

\* the triggerAIFileScan calls for f suspended at their request
OutstandingAIFileScans(f) == {c \in aiCalls : c.kind = "file" /\ c.file = f}

PendingCount(kind, file) ==
    LET S == {t \in PendingTimers(kind) : file = "" \/ t.file = file}
        RECURSIVE Sum(_)
        Sum(T) == IF T = {} THEN 0
                  ELSE LET t == CHOOSE x \in T : TRUE IN timers[t] + Sum(T \ {t})
    IN  Sum(S)

\* C12: in every state at most one save-debounce timer is pending per file, at
\* most one idle timer and at most one AI-batch timer, and a pending timer is
\* the one its slot (saveTimers[f], idleTimer, aiBatchTimer) holds.
C12_TimersSingleSlot ==
    /\ \A f \in Files :
          /\ PendingCount("save", f) <= 1
          /\ \A t \in PendingTimers("save") :
                t.file = f => Has(saveTimers, f) /\ saveTimers[f] = t
    /\ PendingCount("idle", "") <= 1
    /\ \A t \in PendingTimers("idle") : idleTimer = t
    /\ PendingCount("batch", "") <= 1
    /\ \A t \in PendingTimers("batch") : aiBatchTimer = t

\* an idle timer set again by a second edit and a save timer set again by a
\* second save are pending, one of each
C12_Witness ==
    \E f \in Files :
        /\ docVersion[f] >= 3
        /\ EpochOf(f) >= 2
        /\ PendingCount("save", f) = 1
        /\ PendingCount("idle", "") = 1

(***************************************************************************)
(* Claims on failures of the save scan (SpecSave)                          *)
(***************************************************************************)
\* C13: when the request of a save-triggered attempt fails, the pending entry
\* of the file is gone, no request, timer or attempt is added (no retry), the
\* failure leaves the last-scanned hash alone, and that hash is still what it
\* was before the attempt, that is, not the hash of the failed attempt, so
\* that the next save of the same content is scheduled again.
C13_FailedScanCanBeRetried ==
    [][\A c \in scanCalls :
          (c.pc = "request" /\ c \notin scanCalls'
             /\ lastLog' = <<"scan", c.file, "failed">>)
            => /\ ~Has(pendingScans', c.file)
               /\ requests' = requests
               /\ timers' = timers
               /\ scanCalls' = scanCalls \ {c}
               /\ lastScannedHash' = lastScannedHash
               /\ ~(Has(lastScannedHash', c.file)
                     /\ lastScannedHash'[c.file] = c.hash)]_vars

\* C36: the diagnostics listener commits a hash as last scanned only for
\* content for which a scan request was sent: whenever a diagnostics change
\* commits the hash of a file, a scanFile or scanWorkspace request carrying that
\* file and that hash has been sent before (so diagnostics arriving while the
\* debounce timer is pending, or after the attempt was skipped for want of the
\* client, commit nothing).
C36_CommitOnlyAfterRequestSent ==
    [][\A f \in Files :
          lastLog' = <<"diagnostics", f, "fresh">>
            => \E r \in DOMAIN requests :
                   /\ r.cmd \in {"scanFile", "scanWorkspace"}
                   /\ r.file = f
                   /\ r.hash = lastScannedHash'[f]]_vars

(***************************************************************************)
(* Claims on the correlation service (SpecCorr)                            *)
(***************************************************************************)
RelatedIds(f) ==
    IF f.correlationMetadata = <<>> THEN <<>>
    ELSE f.correlationMetadata[1].relatedFindingIds

CorrelationTypeOf(f) ==
    IF f.correlationMetadata = <<>> THEN ""
    ELSE f.correlationMetadata[1].correlationType

SameGroup(f1, f2) == f1.file = f2.file /\ f1.line \div 10 = f2.line \div 10

Returned(name) == svcResult # <<>> /\ svcResult[1] = name

\* the finding is of a deterministic scanner / of an AI scanner
IsDeterministic(f) == getScannerType(f.scannerId) \in {"deterministic", "source", "ir"}
IsAI(f) == getScannerType(f.scannerId) \in {"llm", "hybrid"}

\* the two findings are in one bucket, one is deterministic and the other AI,
\* and their score is above 0.7
Linkable(f1, f2) ==
    /\ f1.file = f2.file /\ f1.line \div 10 = f2.line \div 10
    /\ (IsDeterministic(f1) /\ IsAI(f2)) \/ (IsAI(f1) /\ IsDeterministic(f2))
    /\ calculateCorrelationScore(f1, f2)[1] * 10 > 7 * calculateCorrelationScore(f1, f2)[2]

NoSelfReference(fs) ==
    \A k \in 1 .. Len(fs) : ~InSeq(RelatedIds(fs[k]), fs[k].id)

\* C29: the ids of an array of findings being pairwise distinct, a call of
\* correlateFindings, augmentFinding or mergeDuplicates on findings none of
\* which lists its own id as related leaves and returns findings none of
\* which lists its own id as related.
C29_NoSelfReference ==
    [][(svcResult = <<>> /\ svcResult' # <<>> /\ NoSelfReference(svcArgs))
         => NoSelfReference(svcArgs') /\ NoSelfReference(svcResult'[2])]_vars

\* findings were linked by correlateFindings, one was augmented after that,
\* and mergeDuplicates has merged two of the three
C29_Witness ==
    /\ Returned("mergeDuplicates")
    /\ Len(svcArgs) = 3
    /\ NoSelfReference(svcArgs)
    /\ \E k \in 1 .. 3 : /\ CorrelationTypeOf(svcArgs[k]) = "augmentation"
                          /\ Len(RelatedIds(svcArgs[k])) >= 2
    /\ Len(svcResult[2]) = 2
    /\ \E k \in 1 .. 2 : /\ svcResult[2][k].mergedFrom # <<>>
                          /\ RelatedIds(svcResult[2][k]) # <<>>

\* the order of the severities, lowest first; a severity outside it ranks
\* below all of them
SeverityRank(sev) ==
    CASE sev = "critical" -> 5
      [] sev = "high" -> 4
      [] sev = "medium" -> 3
      [] sev = "low" -> 2
      [] sev = "info" -> 1
      [] OTHER -> 0

\* the scanner classification of a finding is llm: the explicit one, or the
\* one inferred from the scanner id when there is none
LLMClassified(f) ==
    IF f.scannerType # "" THEN f.scannerType = "llm"
    ELSE getScannerType(f.scannerId) = "llm"

\* the configured policy permits an upgrade to the severity of the finding
PolicyPermits(llm) ==
    \/ config.severityUpgradePolicy = "llm_high_conf_only"
          /\ LLMClassified(llm) /\ llm.confidence = "high"
    \/ config.severityUpgradePolicy = "any_llm" /\ LLMClassified(llm)
    \/ config.severityUpgradePolicy = "multi_scanner" /\ RelatedIds(llm) # <<>>

AtLeastMinConfidence(confidence) ==
    \/ config.minAugmentationConfidence = "low"
    \/ config.minAugmentationConfidence = "medium" /\ confidence \in {"medium", "high"}
    \/ config.minAugmentationConfidence = "high" /\ confidence = "high"

\* C31: the finding augmentFinding(base, llm) returns lists llm.id as related
\* and has the correlation type 'augmentation'; it carries the augmented
\* data of llm and an augmentation time when llm.confidence is at least the
\* configured minimum augmentation confidence, and neither of them otherwise.
C31_AugmentedWhenConfident ==
    Returned("augmentFinding")
       => LET llm == svcArgs[svcResult[4]]
              result == svcResult[2][svcResult[3]]
              llmData == {llm.augmentedData, llm.metadataAugmentedData} \ {<<>>}
          IN  /\ InSeq(RelatedIds(result), llm.id)
              /\ CorrelationTypeOf(result) = "augmentation"
              /\ result.augmentedAt <=> AtLeastMinConfidence(llm.confidence)
              /\ IF AtLeastMinConfidence(llm.confidence) /\ llmData # {}
                 THEN result.augmentedData \in llmData
                 ELSE result.augmentedData = <<>>

\* with the minimum 'medium', a finding is augmented by a hybrid finding of
\* confidence medium that has augmented data
C31_Witness ==
    /\ Returned("augmentFinding")
    /\ config.minAugmentationConfidence = "medium"
    /\ svcArgs[svcResult[4]].confidence = "medium"
    /\ svcArgs[svcResult[4]].augmentedData # <<>>
    /\ svcArgs[svcResult[3]].augmentedData = <<>>
    /\ svcResult[2][svcResult[3]].augmentedData = svcArgs[svcResult[4]].augmentedData
    /\ svcResult[2][svcResult[3]].augmentedAt

\* C14: in every call of correlateFindings, two findings the call links hold
\* each other's id afterwards, and two findings that held no related ids
\* before the call hold each other's id both or neither.
C14_LinkSymmetric ==
    [][(svcResult = <<>> /\ svcResult' # <<>> /\ svcResult'[1] = "correlateFindings")
         => \A i, j \in 1 .. Len(svcArgs) :
               LET out == svcResult'[2]
               IN  /\ (i < j /\ SameGroup(svcArgs[i], svcArgs[j])
                         /\ CrossPairLinked(svcArgs[i], svcArgs[j]))
                        => /\ InSeq(RelatedIds(out[i]), out[j].id)
                           /\ InSeq(RelatedIds(out[j]), out[i].id)
                   /\ (RelatedIds(svcArgs[i]) = <<>> /\ RelatedIds(svcArgs[j]) = <<>>)
                        => (InSeq(RelatedIds(out[i]), out[j].id)
                              <=> InSeq(RelatedIds(out[j]), out[i].id))]_vars

C14_Witness ==
    /\ Returned("correlateFindings")
    /\ \E i, j \in 1 .. Len(svcArgs) :
          /\ i < j
          /\ InSeq(RelatedIds(svcArgs[i]), svcArgs[j].id)
          /\ InSeq(RelatedIds(svcArgs[j]), svcArgs[i].id)
          /\ svcArgs[i].correlationMetadata[1].correlationScore # <<>>
          /\ svcArgs[j].correlationMetadata[1].relatedFindingIds[1] # svcArgs[i].id

SameSet(fs, gs) ==
    {fs[k] : k \in 1 .. Len(fs)} = {gs[k] : k \in 1 .. Len(gs)}

\* C15: merging the output of mergeDuplicates again returns the same set of
\* findings.
C15_MergeIdempotent ==
    Returned("mergeDuplicates")
       => SameSet(mergeDuplicates(svcResult[2]), svcResult[2])

\* C16: mergeDuplicates returns the same set of findings for every order in
\* which the findings of its input are listed.
C16_MergeOrderIndependent ==
    Returned("mergeDuplicates")
       => \A p \in Permutations(1 .. Len(svcArgs)) :
             SameSet(mergeDuplicates([k \in 1 .. Len(svcArgs) |-> svcArgs[p[k]]]),
                     svcResult[2])

\* the ids of the array are pairwise distinct
DistinctIds(fs) == \A i, j \in 1 .. Len(fs) : fs[i].id = fs[j].id => i = j

\* the output record accounts for the input finding: it is that finding,
\* passed through unchanged, or a record merged by the call whose merged_from
\* lists the finding's id
AccountsFor(out, input, inputs) ==
    IF \E k \in 1 .. Len(inputs) : inputs[k] = out
    THEN out = input
    ELSE \E m \in 1 .. Len(out.mergedFrom) : out.mergedFrom[m] = input.id

\* C39: mergeDuplicates neither loses nor duplicates findings: when the ids of
\* the input are pairwise distinct, every input finding is accounted for by
\* exactly one record of the output, either passed through unchanged or listed
\* in merged_from of one merged record.
C39_MergeKeepsEveryFindingOnce ==
    (Returned("mergeDuplicates") /\ DistinctIds(svcArgs))
       => \A k \in 1 .. Len(svcArgs) :
             Cardinality({m \in 1 .. Len(svcResult[2]) :
                            AccountsFor(svcResult[2][m], svcArgs[k], svcArgs)}) = 1

\* three findings, two of them merged into one record and one passed through
C39_Witness ==
    /\ Returned("mergeDuplicates") /\ DistinctIds(svcArgs)
    /\ Len(svcArgs) = 3
    /\ Len(svcResult[2]) = 2
    /\ \E m \in 1 .. 2 : Len(svcResult[2][m].mergedFrom) = 2
    /\ \E m \in 1 .. 2, k \in 1 .. 3 : svcResult[2][m] = svcArgs[k]

\* the findings of the array are at one file and line and pairwise of
\* similar type with a score of at least 0.8
PairwiseDuplicates(fs) ==
    \A i, j \in 1 .. Len(fs) :
        i # j => /\ fs[i].file = fs[j].file
                 /\ fs[i].line = fs[j].line
                 /\ findingsAreSimilarType(fs[i], fs[j])
                 /\ LET score == calculateCorrelationScore(fs[i], fs[j])
                    IN  score[1] * 10 >= 8 * score[2]

\* C17: mergeDuplicates turns N >= 2 pairwise duplicates at one file and line
\* into one finding, which is a member of highest severity with its title
\* followed by "(Confirmed by N scanners)".
C17_GroupMergedIntoOne ==
    (Returned("mergeDuplicates") /\ Len(svcArgs) >= 2 /\ PairwiseDuplicates(svcArgs))
       => /\ Len(svcResult[2]) = 1
          /\ \E k \in 1 .. Len(svcArgs) :
                /\ \A m \in 1 .. Len(svcArgs) :
                      SeverityIndex(svcArgs[m].severity) <= SeverityIndex(svcArgs[k].severity)
                /\ svcResult[2][1].id = svcArgs[k].id
                /\ svcResult[2][1].severity = svcArgs[k].severity
                /\ svcResult[2][1].title
                      = svcArgs[k].title \o <<"Confirmed by", Len(svcArgs)>>

C17_Witness ==
    /\ Returned("mergeDuplicates") /\ Len(svcArgs) = 3 /\ PairwiseDuplicates(svcArgs)
    /\ Len(svcResult[2]) = 1
    /\ svcResult[2][1].id = svcArgs[2].id
    /\ SeverityIndex(svcArgs[1].severity) < SeverityIndex(svcArgs[2].severity)

\* C18: when a call of correlateFindings links a finding of a deterministic
\* scanner and a finding of an LLM scanner at the same file and line, neither
\* of which had a correlation type or another link partner in the call, both
\* have the correlation type 'augmentation' afterwards.
C18_DeterministicLLMAugmentation ==
    [][(svcResult = <<>> /\ svcResult' # <<>> /\ svcResult'[1] = "correlateFindings")
         => \A i, j \in 1 .. Len(svcArgs) :
               (/\ getScannerType(svcArgs[i].scannerId) \in {"deterministic", "source", "ir"}
                /\ getScannerType(svcArgs[j].scannerId) = "llm"
                /\ svcArgs[i].file = svcArgs[j].file /\ svcArgs[i].line = svcArgs[j].line
                /\ CrossPairLinked(svcArgs[i], svcArgs[j])
                /\ CorrelationTypeOf(svcArgs[i]) = "" /\ CorrelationTypeOf(svcArgs[j]) = ""
                /\ \A k \in 1 .. Len(svcArgs) \ {i, j} :
                      ~(SameGroup(svcArgs[i], svcArgs[k]) /\ CrossPairLinked(svcArgs[i], svcArgs[k]))
                      /\ ~(SameGroup(svcArgs[j], svcArgs[k]) /\ CrossPairLinked(svcArgs[j], svcArgs[k])))
                 => /\ CorrelationTypeOf(svcResult'[2][i]) = "augmentation"
                    /\ CorrelationTypeOf(svcResult'[2][j]) = "augmentation"]_vars

ScoreInRange(a, b) ==
    LET score == calculateCorrelationScore(a, b)
    IN  score[2] > 0 /\ 0 <= score[1] /\ score[1] <= score[2]

SelfScoreMaximal(a, fs) ==
    LET self == calculateCorrelationScore(a, a)
    IN  /\ self[1] * 10 >= 9 * self[2]
        /\ \A k \in 1 .. Len(fs) :
              LET score == calculateCorrelationScore(a, fs[k])
              IN  (a.relatedTo # fs[k].id /\ fs[k].relatedTo # a.id)
                     => score[1] * self[2] <= self[1] * score[2]

\* C19 as stated: every score lies in [0, 1], and every finding scores with
\* itself 0.9 or more, the value of full overlap, similar type and equal
\* severity, which no finding without a related_to reference exceeds.
C19_SelfScoreOfEveryFinding ==
    \A i, j \in 1 .. Len(svcArgs) :
        /\ ScoreInRange(svcArgs[i], svcArgs[j])
        /\ SelfScoreMaximal(svcArgs[i], svcArgs)

\* C19, amended: every score lies in [0, 1]; a finding whose endLine is absent
\* or not smaller than its line, and which has a finding type or a rule that
\* is not empty after its scanner prefix, scores with itself 0.9 or more,
\* which no finding without a related_to reference exceeds.
C19_ScoreBounds ==
    \A i, j \in 1 .. Len(svcArgs) :
        /\ ScoreInRange(svcArgs[i], svcArgs[j])
        /\ (/\ EndLineOf(svcArgs[i]) >= svcArgs[i].line
            /\ (svcArgs[i].findingType # ""
                  \/ svcArgs[i].rule[2] # ""
                  \/ svcArgs[i].rule[1] \notin {"source_", "hybrid_", "cranelift_", ""}))
              => SelfScoreMaximal(svcArgs[i], svcArgs)

C19_Witness ==
    \E i, j \in 1 .. Len(svcArgs) :
        /\ EndLineOf(svcArgs[i]) < svcArgs[i].line
        /\ findingsOverlap(svcArgs[i], svcArgs[j])
        /\ svcArgs[j].endLine # {}
        /\ calculateCorrelationScore(svcArgs[i], svcArgs[j])[1] = 0
        /\ calculateCorrelationScore(svcArgs[j], svcArgs[j]) = <<63, 70>>

(***************************************************************************)
(* Claims on the line shifts of the ChangeTracker (SpecSmart)              *)
(***************************************************************************)
\* C20: when a file without recorded line shifts receives one change that
\* inserts k lines at line L (an empty range on that line, k line breaks in
\* the text), applyLineShift returns x + k for every line x after L and x for
\* every line x before L.
C20_InsertShiftsLinesBelow ==
    [][\A f \in Files :
          (/\ lastLog'[1] = "change" /\ lastLog'[2] = f /\ Len(lastLog'[3]) = 1
           /\ docVersion'[f] = docVersion[f] + 1
           /\ ~Has(lineDeltas, f))
            => LET L == lastLog'[3][1].startLine + 1
                   k == lastLog'[3][1].addedLines
               IN  (/\ lastLog'[3][1].endLine = L - 1
                    /\ L \in 1 .. MaxLine /\ k \in 1 .. MaxInsert)
                     => \A x \in 1 .. MaxLine :
                           /\ x > L => applyLineShift(f, x)' = x + k
                           /\ x < L => applyLineShift(f, x)' = x]_vars

C20_Witness ==
    \E f \in Files :
       /\ lastLog = <<"change", f, <<Change(9, 9, 3)>>>>
       /\ Has(lineDeltas, f) /\ lineDeltas[f] = (10 :> 3)
       /\ applyLineShift(f, 15) = 18
       /\ applyLineShift(f, 8) = 8

(***************************************************************************)
(* Claims on the on-save modes (SpecModes)                                 *)
(***************************************************************************)
\* the requests sent by the step, as a set of commands and files
SentNow ==
    {<<r.cmd, r.file>> : r \in {x \in DOMAIN requests' :
                                  ~Has(requests, x) \/ requests'[x] > requests[x]}}

\* C23: on a save, mode 'off' sends nothing and changes no scheduler state;
\* mode 'smart' with smart AI rescan enabled and an AI finding on the file
\* takes no epoch, records no pending scan and starts no debounce timer;
\* mode 'ai' sends at most an llmScanFile for the file, sends it when the
\* client is there and no AI scan of the file is in flight, and starts no
\* deterministic scan.
C23_ModeSelectsPath ==
    [][\A f \in Files : lastLog'[1] = "save" /\ lastLog'[2] = f =>
          /\ config.onSaveMode = "off" =>
                /\ SentNow = {}
                /\ UNCHANGED <<trackerVars, detVars, timerVars, aiStateVars, aiRunVars>>
          /\ ( /\ config.onSaveMode = "smart"
               /\ config.smartRescan # "off"
               /\ filterAIFindings(findings, f) # {} ) =>
                /\ UNCHANGED <<epochByFile, pendingScans, saveTimers, scanCalls>>
                /\ PendingTimers("save")' = PendingTimers("save")
                /\ SentNow \subseteq {<<"llmScanFile", f>>}
          /\ config.onSaveMode = "ai" =>
                /\ UNCHANGED <<detVars, timerVars>>
                /\ SentNow \subseteq {<<"llmScanFile", f>>}
                /\ ( /\ config.onSave # "none"
                     /\ lspClient
                     /\ ~Has(inflightAIScans, f) ) => SentNow = {<<"llmScanFile", f>>}]_vars

C23_Witness ==
    /\ lastLog = <<"save", "a.sol", "file">>
    /\ config.onSaveMode = "smart"
    /\ \E r \in DOMAIN requests : r.cmd = "llmScanFile"
    /\ epochByFile = EmptyMap /\ pendingScans = EmptyMap /\ timers = EmptyMap
    /\ docVersion["a.sol"] > 1

(***************************************************************************)
(* Claims on the smart rescan gate (SpecSmart)                             *)
(***************************************************************************)
\* the content of f hashes to the hash recorded at its last AI scan
HashAsAtLastAIScan(f) ==
    Has(lastAIScanHash, f) /\ lastAIScanHash[f] = GetContentHash(f)

\* an AI finding of f has a modified line in its window and passes the
\* severity filter
AIFindingTouched(f) ==
    filterBySeverity(checkFindingsAffected(filterAIFindings(findings, f),
                                           GetModifiedLines(f), config.contextLines),
                     config.minSeverity) # {}

\* C24: on a save routed to the smart rescan with the hash of the last AI
\* scan, a version not beyond the recorded one dispatches nothing; a version
\* beyond it with an edit in an AI finding's window dispatches a rescan (an
\* llmScanFile at once, or the file in the pending batch with its timer).
C24_VersionGatesTheHashSkip ==
    [][\A f \in Files :
          ( /\ lastLog'[1] = "save" /\ lastLog'[2] = f
            /\ SavePath(f) = "smart"
            /\ HashAsAtLastAIScan(f)
            /\ Has(lastAIScanVersion, f) ) =>
          /\ docVersion[f] <= lastAIScanVersion[f] =>
                /\ SentNow = {}
                /\ UNCHANGED <<pendingAIRescans, aiCalls, inflightAIScans, timerVars>>
          /\ docVersion[f] > lastAIScanVersion[f] /\ AIFindingTouched(f) =>
                /\ ( /\ config.smartRescan = "file"
                     /\ lspClient
                     /\ ~Has(inflightAIScans, f) ) => SentNow = {<<"llmScanFile", f>>}
                /\ config.smartRescan = "batch" =>
                      /\ InSeq(pendingAIRescans', f)
                      /\ aiBatchTimer' \in PendingTimers("batch")']_vars

C24_Witness ==
    /\ lastLog = <<"save", "a.sol", "file">>
    /\ HashAsAtLastAIScan("a.sol")
    /\ docVersion["a.sol"] > lastAIScanVersion["a.sol"]
    /\ \E c \in aiCalls : c.kind = "file" /\ c.file = "a.sol"

(***************************************************************************)
(* Claims on the end of an AI file scan (SpecSmart)                        *)
(***************************************************************************)
\* C37: lines modified while an AI file scan of the file is in flight are
\* not lost: when the scan of an open document completes and the document was
\* edited after the request was sent, the file still has modified lines and the
\* recorded last-AI-scan version is not the version reached by those edits.
C37_EditsInFlightSurviveTheScan ==
    [][\A c \in aiCalls :
          (/\ c.kind = "file" /\ c \notin aiCalls'
           /\ lastLog' = <<"ai", c.file, "ok">>
           /\ docOpen[c.file]
           /\ docVersion[c.file] > c.sentVersion)
            => /\ Has(modifiedLines', c.file)
               /\ modifiedLines'[c.file] # {}
               /\ ~(Has(lastAIScanVersion', c.file)
                     /\ lastAIScanVersion'[c.file] = docVersion[c.file])]_vars

\* C26: when llmScanFile succeeds for an open document its last-AI-scan
\* version, hash and timestamp are those of the live document and its
\* modified lines and line shifts are gone; when it fails the last-AI-scan
\* maps and the change tracking are left as they were; either way the file
\* has left the in-flight registry.
C26_AIFileScanOutcome ==
    [][\A f \in Files :
          /\ lastLog' = <<"ai", f, "ok">> /\ docOpen[f] =>
                /\ Has(lastAIScanVersion', f) /\ lastAIScanVersion'[f] = docVersion'[f]
                /\ Has(lastAIScanHash', f) /\ lastAIScanHash'[f] = sha256(docText'[f])
                /\ Has(lastAIScanTimestamp', f) /\ lastAIScanTimestamp'[f] = Now
                /\ ~Has(modifiedLines', f)
                /\ ~Has(lineDeltas', f)
                /\ ~Has(inflightAIScans', f)
          /\ lastLog' = <<"ai", f, "failed">> =>
                /\ UNCHANGED <<lastAIScanVersion, lastAIScanHash, lastAIScanTimestamp>>
                /\ UNCHANGED <<modifiedLines, lineDeltas>>
                /\ ~Has(inflightAIScans', f)]_vars

(***************************************************************************)
(* Claims on updateAIScanState (SpecUpdate)                                *)
(***************************************************************************)
\* the step leaves the last-AI-scan maps and the change tracking of f alone
AIStateKeptAt(f) ==
    /\ Has(lastAIScanHash', f) = Has(lastAIScanHash, f)
    /\ Has(lastAIScanHash, f) => lastAIScanHash'[f] = lastAIScanHash[f]
    /\ Has(lastAIScanVersion', f) = Has(lastAIScanVersion, f)
    /\ Has(lastAIScanVersion, f) => lastAIScanVersion'[f] = lastAIScanVersion[f]
    /\ Has(lastAIScanTimestamp', f) = Has(lastAIScanTimestamp, f)
    /\ Has(modifiedLines', f) = Has(modifiedLines, f)
    /\ Has(modifiedLines, f) => modifiedLines'[f] = modifiedLines[f]
    /\ Has(lineDeltas', f) = Has(lineDeltas, f)
    /\ Has(lineDeltas, f) => lineDeltas'[f] = lineDeltas[f]

\* the step leaves the last-scanned hash of f alone
ScannedHashKeptAt(f) ==
    /\ Has(lastScannedHash', f) = Has(lastScannedHash, f)
    /\ Has(lastScannedHash, f) => lastScannedHash'[f] = lastScannedHash[f]

\* the step records an AI scan of the live document of f
AIStateUpdatedAt(f) ==
    /\ Has(lastAIScanHash', f) /\ lastAIScanHash'[f] = GetContentHash(f)
    /\ Has(lastAIScanVersion', f) /\ lastAIScanVersion'[f] = docVersion[f]
    /\ Has(lastAIScanTimestamp', f)
    /\ ~Has(modifiedLines', f)
    /\ ~Has(lineDeltas', f)

\* C27: updateAIScanState(files, scanType) touches, for each listed file with
\* an open document, the bookkeeping scanType selects: 'ai' the last-AI-scan
\* hash, version and timestamp and the change tracking, not the last-scanned
\* hash; 'deterministic' or no scanType the last-scanned hash only; 'hybrid'
\* both.  Files without an open document and files not listed keep theirs.
C27_ScanTypeSelectsBookkeeping ==
    [][\A files \in SUBSET BatchFiles, t \in ScanTypes :
          HandleFindingsUpdated(files, <<>>, t) =>
             \A f \in BatchFiles :
                IF f \in files /\ docOpen[f]
                THEN /\ t \in {"ai", "hybrid"} => AIStateUpdatedAt(f)
                     /\ t = "ai" => ScannedHashKeptAt(f)
                     /\ t \in {"deterministic", "undefined", "hybrid"} =>
                           Has(lastScannedHash', f) /\ lastScannedHash'[f] = GetContentHash(f)
                     /\ t \in {"deterministic", "undefined"} => AIStateKeptAt(f)
                ELSE AIStateKeptAt(f) /\ ScannedHashKeptAt(f)]_vars

\* an 'ai' notification for both files after edits, b.sol having no document
C27_Witness ==
    /\ lastLog[1] = "findingsUpdated" /\ lastLog[4] = BatchFiles
    /\ ~docOpen["b.sol"]
    /\ Has(lastAIScanVersion, "a.sol") /\ lastAIScanVersion["a.sol"] = 2
    /\ ~Has(lastAIScanVersion, "b.sol")
    /\ ~Has(lastScannedHash, "a.sol")
    /\ modifiedLines = EmptyMap

(***************************************************************************)
(* Claims on the AI batch (SpecBatch)                                      *)
(***************************************************************************)
\* no request is sent twice by the step
SentOnce ==
    \A r \in DOMAIN requests' :
        requests'[r] <= (IF Has(requests, r) THEN requests[r] ELSE 0) + 1

\* the step is the batch timer callback with n >= 1 pending files
BatchFires == lastLog' = <<"batchTimer", "", "">> /\ pendingAIRescans # <<>>

\* the files of the batch that the callback has scanned or still holds
BatchCovered ==
    {c.file : c \in {x \in aiCalls' \ aiCalls : x.kind = "file"}}
    \cup UNION {SeqRange(c.cont.rest) : c \in aiCalls' \ aiCalls}

\* C25: when the batch timer fires with n >= 1 pending files the pending set
\* is emptied; with n >= threshold the one request sent is llmScanWorkspace,
\* and when it succeeds the last-AI-scan version, hash and timestamp of every
\* file and all change tracking are cleared; with n < threshold the first
\* file is scanned and the others wait their turn (with the client there).
C25_BatchTimerDispatch ==
    [][/\ BatchFires =>
           /\ pendingAIRescans' = <<>>
           /\ \A t \in PendingTimers("batch") \ PendingTimers("batch")' :
                 /\ Len(pendingAIRescans) >= t.num /\ lspClient =>
                       /\ SentNow = {<<"llmScanWorkspace", "">>}
                       /\ SentOnce
                 /\ Len(pendingAIRescans) < t.num /\ lspClient /\ inflightAIScans = EmptyMap =>
                       /\ SentNow = {<<"llmScanFile", Head(pendingAIRescans)>>}
                       /\ SentOnce
                       /\ BatchCovered = SeqRange(pendingAIRescans)
       /\ lastLog' = <<"aiWorkspace", "", "ok">> =>
           /\ lastAIScanVersion' = EmptyMap
           /\ lastAIScanHash' = EmptyMap
           /\ lastAIScanTimestamp' = EmptyMap
           /\ modifiedLines' = EmptyMap
           /\ lineDeltas' = EmptyMap]_vars

(***************************************************************************)
(* Claims on the details service (SpecDetails)                             *)
(***************************************************************************)
\* the callers of fetchDetails(id) whose promise is still pending
Unsettled(id) ==
    {n \in DOMAIN callerAsked : callerAsked[n] = id /\ n \notin DOMAIN settled}

C21_DisposeReleasesEverything ==
    [][lastLog' = <<"dispose", "", "">>
         => /\ PendingTimers("save")' = {}
            /\ PendingTimers("idle")' = {}
            /\ PendingTimers("batch")' = {}
            /\ \A c \in aiCalls' : c.kind = "file" => c \in cancelledTokens'
            /\ inflightAIScans' = EmptyMap
            /\ listeners' = {}]_vars

C21_Witness ==
    /\ lastLog = <<"dispose", "", "">>
    /\ idleTimer # NoTimer /\ aiBatchTimer # NoTimer
    /\ \E c \in aiCalls : c.kind = "file" /\ c \in cancelledTokens

(***************************************************************************)
(* Claims on the epoch gate                                                *)
(***************************************************************************)
MaxApplied == IF appliedEpochs = {} THEN 0 ELSE Max(appliedEpochs)

\* C1: a findingsUpdated notification carrying epoch e starts a findings reload
\* only if e is strictly greater than every epoch applied before it, and any
\* other notification leaves the displayed findings and the last-applied epoch
\* as they were.
C1_ReloadOnlyAboveMaxApplied ==
    [][/\ lastLog'[1] = "findingsUpdated" /\ lastLog'[2] # <<>>
       => /\ lastLog'[3] = "loading" => lastLog'[2][1] > MaxApplied
          /\ lastLog'[3] = "ignored" =>
                UNCHANGED <<findings, lastAppliedScanEpoch>>]_vars

\* C2: with overlapping reloads the last-applied epoch never decreases and a
\* result fetched for epoch e is applied only if e is above every epoch already
\* applied (never backwards, never twice).
C2_NeverBackwardsNorTwice ==
    [][/\ lastAppliedScanEpoch' >= lastAppliedScanEpoch
       /\ (lastLog'[1] = "load.applied" /\ loads' # loads)
            => lastLog'[2] > MaxApplied]_vars

\* C3: a findingsUpdated notification without scanEpoch always starts a reload
\* (a getFindings request whose result is then applied), whatever the
\* last-applied epoch is.
C3_NoEpochReloads ==
    [][(lastLog'[1] = "findingsUpdated" /\ lastLog'[2] = <<>>)
         => lastLog'[3] = "loading"]_vars


(***************************************************************************)
(* Claims on renamed and deleted files (SpecRename)                        *)
(***************************************************************************)
\* the entry the map has for the one path is the entry it had for the other
SameEntry(mapAfter, newPath, mapBefore, oldPath) ==
    /\ Has(mapAfter, newPath) <=> Has(mapBefore, oldPath)
    /\ Has(mapBefore, oldPath) => mapAfter[newPath] = mapBefore[oldPath]

\* C32: after handleFileRename(old, new) the new path has the modified lines,
\* the document version, the cached hash and the shift map the old path
\* had, isLineModified and applyLineShift answer for the new path as they
\* did for the old one, and the old path has no modified lines and no
\* shift map.
C32_RenameMovesTracking ==
    [][\A oldPath, newPath \in BatchFiles :
          lastLog' = <<"rename", oldPath, newPath>>
            =>  /\ SameEntry(modifiedLines', newPath, modifiedLines, oldPath)
                /\ SameEntry(lineDeltas', newPath, lineDeltas, oldPath)
                /\ SameEntry(documentVersions', newPath, documentVersions, oldPath)
                /\ SameEntry(contentHashes', newPath, contentHashes, oldPath)
                /\ \A line \in 1 .. MaxLine :
                      /\ isLineModified(newPath, line)' = isLineModified(oldPath, line)
                      /\ applyLineShift(newPath, line)' = applyLineShift(oldPath, line)
                /\ ~Has(modifiedLines', oldPath)
                /\ ~Has(lineDeltas', oldPath)]_vars


\* C33: after the delete event of a file none of its per-file state is left:
\* modified lines, shift map, document version and cached hash of the change
\* tracker, last-scanned hash, pending scan and last-AI-scan bookkeeping of
\* the scheduler.
C33_DeleteLeavesNoState ==
    [][\A f \in BatchFiles :
          lastLog' = <<"delete", f, "">>
            =>  /\ ~Has(modifiedLines', f)
                /\ ~Has(lineDeltas', f)
                /\ ~Has(documentVersions', f)
                /\ ~Has(contentHashes', f)
                /\ ~Has(lastScannedHash', f)
                /\ ~Has(pendingScans', f)
                /\ ~Has(lastAIScanVersion', f)
                /\ ~Has(lastAIScanHash', f)
                /\ ~Has(lastAIScanTimestamp', f)]_vars


(***************************************************************************)
(* Claims on line shifts after several edits (SpecShift)                   *)
(***************************************************************************)
\* the lines of the text that no edit has touched
UntouchedLines(text) == {text[i] : i \in 1 .. Len(text)} \ {0}

\* the line number at which line x of the cleared state is now
CurrentLine(text, x) == CHOOSE i \in 1 .. Len(text) : text[i] = x

\* C38: after any sequence of edits since tracking was last cleared,
\* applyLineShift(file, x) is the current line number of the line that was
\* at x before the edits, for every line x that no edit touched.
C38_ShiftIsCurrentLine ==
    \A f \in Files : \A x \in UntouchedLines(docText[f]) :
        applyLineShift(f, x) = CurrentLine(docText[f], x)


(***************************************************************************)
(* Claims on the scheduler after dispose (SpecTimers)                      *)
(***************************************************************************)
\* dispose() has run: every listener of the scheduler is detached
Disposed == listeners = {}

\* C40: after ScanScheduler.dispose() the scheduler sends no further scan
\* request, also not from a save-debounce attempt or an AI-batch run that was
\* past its timer and suspended at an await when dispose was called.
C40_NoRequestAfterDispose ==
    [][Disposed => requests' = requests]_vars

====
